---- MODULE Spec2Model ----
(***************************************************************************)
(* A model of the ally repository: the three write-through text caches     *)
(* (competitor report, recommendations, summarization), the CSV-backed     *)
(* product store with the product-update tools, the agent tool functions,  *)
(* and the AgentService orchestration around the agent event stream.       *)
(*                                                                         *)
(* Strings whose content the code inspects (strip(), emptiness, pandas'    *)
(* NA tokens, newline translation) are sequences of one-character strings. *)
(* Optional values are sequences of length 0 (None) or 1 (a value).        *)
(***************************************************************************)
EXTENDS Integers, Sequences, FiniteSets, TLC

VARIABLES
    cache,            \* per service: the in-memory dict _reports_cache etc.
    files,            \* per service: the file of each product id, if any
    objs,             \* heap of Product objects of ProductService
    products,         \* ProductService.products: list of object references
    products_by_id,   \* ProductService._products_by_id: id -> reference
    csv,              \* content of settings.PRODUCTS_FILE
    last,             \* the call that completed last, and what it returned
    ncalls,           \* number of tool calls made so far
    run,              \* the AgentService invocation in progress
    conc              \* concurrent save calls in progress

vars == <<cache, files, objs, products, products_by_id, csv, last, ncalls, run, conc>>

-----------------------------------------------------------------------------
(* Bounds *)

MaxTextLen == 1
MaxCalls == 2
MaxEvents == 2
MaxElapsed == 2

-----------------------------------------------------------------------------
(* Values *)

None == <<>>
Some(x) == <<x>>
IsNone(o) == Len(o) = 0
Val(o) == o[1]

RECURSIVE SeqsUpTo(_, _)
SeqsUpTo(S, n) ==
    IF n = 0 THEN {<<>>}
    ELSE LET shorter == SeqsUpTo(S, n - 1)
         IN  shorter \cup {Append(s, c) : s \in {t \in shorter : Len(t) = n - 1}, c \in S}

\* Characters of artifact texts: a letter and a carriage return.
TextChars == {"a", "\r"}
Texts == SeqsUpTo(TextChars, MaxTextLen)

\* Product ids; EmptyId is the empty string, which the services reject.
EmptyId == ""
ProductIds == {"B0TEST001", "B0TEST002"}
IdArgs == ProductIds \cup {EmptyId}

Services == {"competitor_report_service",
             "product_recommendation_service",
             "summarization_service"}

-----------------------------------------------------------------------------
(* Text files: open(path, 'w', encoding='utf-8') / open(path, 'r', ...)     *)

\* f.read() of a text-mode file: universal newlines turn "\r\n" and a lone
\* "\r" into "\n".
RECURSIVE ReadText(_)
ReadText(bytes) ==
    IF Len(bytes) = 0 THEN <<>>
    ELSE IF bytes[1] = "\r"
         THEN IF Len(bytes) >= 2 /\ bytes[2] = "\n"
              THEN <<"\n">> \o ReadText(SubSeq(bytes, 3, Len(bytes)))
              ELSE <<"\n">> \o ReadText(Tail(bytes))
         ELSE <<bytes[1]>> \o ReadText(Tail(bytes))

\* What a file can hold after open(..., 'w') succeeded (the file is
\* truncated) and f.write()/close failed: a proper prefix of the text.
PartialWrites(text) == {SubSeq(text, 1, n) : n \in 0 .. (Len(text) - 1)}

-----------------------------------------------------------------------------
(* The write-through text caches.  CompetitorReportService,                 *)
(* ProductRecommendationService and SummarizationService are the same code  *)
(* over their own dict and directory; an operation takes the dict (mem)     *)
(* and the directory (dir) of one service and yields the set of its         *)
(* possible outcomes, one per result of the file system calls it makes.     *)

Outcome(mem, dir, ret, raised, io) ==
    [cache |-> mem, files |-> dir, ret |-> ret, raised |-> raised, io |-> io]

\* save_report: the dict is not written (the bug a lost cache update would be).
SaveOutcomes_SkipMemory(mem, dir, product_id, report) ==
    IF product_id = EmptyId \/ report = <<>>
    THEN {Outcome(mem, dir, None, "ValueError", "")}
    ELSE {Outcome(mem, [dir EXCEPT ![product_id] = Some(report)], None, "", "ok")}

\* save_report without the test of the text: an empty report is stored
SaveOutcomes_EmptyText(mem, dir, product_id, report) ==
    IF product_id = EmptyId
    THEN {Outcome(mem, dir, None, "ValueError", "")}
    ELSE LET cached == [mem EXCEPT ![product_id] = Some(report)]
         IN  {Outcome(cached, [dir EXCEPT ![product_id] = Some(report)], None, "", "ok")}
             \cup {Outcome(cached, dir, None, "IOError", "open_failed")}
             \cup {Outcome(cached, [dir EXCEPT ![product_id] = Some(part)],
                           None, "IOError", "write_failed")
                   : part \in PartialWrites(report)}

\* save_report / save_recommendations / save_summarization
SaveOutcomes(mem, dir, product_id, report) ==
    IF product_id = EmptyId
    THEN {Outcome(mem, dir, None, "ValueError", "")}
    ELSE IF report = <<>>
    THEN {Outcome(mem, dir, None, "ValueError", "")}
    ELSE LET cached == [mem EXCEPT ![product_id] = Some(report)]
         IN  {Outcome(cached, [dir EXCEPT ![product_id] = Some(report)], None, "", "ok")}
             \cup {Outcome(cached, dir, None, "IOError", "open_failed")}
             \cup {Outcome(cached, [dir EXCEPT ![product_id] = Some(part)],
                           None, "IOError", "write_failed")
                   : part \in PartialWrites(report)}

\* get_report: a miss answers the empty string and caches it.
GetOutcomes_EmptyOnMiss(mem, dir, product_id) ==
    IF product_id = EmptyId
    THEN {Outcome(mem, dir, None, "", "")}
    ELSE IF ~IsNone(mem[product_id])
    THEN {Outcome(mem, dir, mem[product_id], "", "")}
    ELSE IF IsNone(dir[product_id])
    THEN {Outcome([mem EXCEPT ![product_id] = Some(<<>>)], dir, Some(<<>>), "", "")}
    ELSE {Outcome([mem EXCEPT ![product_id] = Some(ReadText(Val(dir[product_id])))],
                  dir, Some(ReadText(Val(dir[product_id]))), "", "ok")}

\* get_report that returns what it read without keeping it in the map
GetOutcomes_NoFill(mem, dir, product_id) ==
    IF product_id = EmptyId
    THEN {Outcome(mem, dir, None, "", "")}
    ELSE IF product_id \notin DOMAIN mem
    THEN {Outcome(mem, dir, None, "", "")}
    ELSE IF ~IsNone(mem[product_id])
    THEN {Outcome(mem, dir, mem[product_id], "", "")}
    ELSE IF IsNone(dir[product_id])
    THEN {Outcome(mem, dir, None, "", "")}
    ELSE {Outcome(mem, dir, Some(ReadText(Val(dir[product_id]))), "", "ok"),
          Outcome(mem, dir, None, "", "read_failed")}

\* get_report / get_recommendations / get_summarization.  A key outside the
\* ids the model keeps entries and files for has neither.
GetOutcomes(mem, dir, product_id) ==
    IF product_id = EmptyId
    THEN {Outcome(mem, dir, None, "", "")}
    ELSE IF product_id \notin DOMAIN mem
    THEN {Outcome(mem, dir, None, "", "")}
    ELSE IF ~IsNone(mem[product_id])
    THEN {Outcome(mem, dir, mem[product_id], "", "")}
    ELSE IF IsNone(dir[product_id])
    THEN {Outcome(mem, dir, None, "", "")}
    ELSE LET report == ReadText(Val(dir[product_id]))
         IN  {Outcome([mem EXCEPT ![product_id] = Some(report)], dir,
                      Some(report), "", "ok"),
              Outcome(mem, dir, None, "", "read_failed")}

\* has_report that looks in the dict only and never at the directory.
HasOutcomes_MemoryOnly(mem, dir, product_id) ==
    IF product_id = EmptyId
    THEN {Outcome(mem, dir, FALSE, "", "")}
    ELSE {Outcome(mem, dir, ~IsNone(mem[product_id]), "", "")}

\* has_report / has_recommendations / has_summarization
HasOutcomes(mem, dir, product_id) ==
    IF product_id = EmptyId
    THEN {Outcome(mem, dir, FALSE, "", "")}
    ELSE IF ~IsNone(mem[product_id])
    THEN {Outcome(mem, dir, TRUE, "", "")}
    ELSE {Outcome(mem, dir, ~IsNone(dir[product_id]), "", "")}

\* delete_report: only the dict entry is removed, the file is left in place.
DeleteOutcomes_KeepFile(mem, dir, product_id) ==
    IF product_id = EmptyId
    THEN {Outcome(mem, dir, FALSE, "", "")}
    ELSE {Outcome([mem EXCEPT ![product_id] = None], dir,
                  ~IsNone(mem[product_id]) \/ ~IsNone(dir[product_id]), "",
                  IF IsNone(dir[product_id]) THEN "" ELSE "ok")}

\* delete_report / delete_recommendations / delete_summarization
DeleteOutcomes(mem, dir, product_id) ==
    IF product_id = EmptyId
    THEN {Outcome(mem, dir, FALSE, "", "")}
    ELSE LET inCache == ~IsNone(mem[product_id])
             uncached == [mem EXCEPT ![product_id] = None]
         IN  IF IsNone(dir[product_id])
             THEN {Outcome(uncached, dir, inCache, "", "")}
             ELSE {Outcome(uncached, [dir EXCEPT ![product_id] = None], TRUE, "", "ok"),
                   Outcome(uncached, dir, inCache, "", "unlink_failed")}

\* clear_cache
ClearCacheOutcomes(mem, dir) ==
    {Outcome([p \in DOMAIN mem |-> None], dir, None, "", "")}

\* What get would return in the current state of a service.
GetReturns(svc, product_id) ==
    {o.ret : o \in GetOutcomes(cache[svc], files[svc], product_id)}

EmptyCache == [p \in ProductIds |-> None]
EmptyDir == [p \in ProductIds |-> None]

NoCall == [op |-> "", svc |-> "", pid |-> EmptyId, arg |-> <<>>,
           ret |-> None, raised |-> "", io |-> "", pre |-> <<>>]

Call(op, svc, pid, arg, o) ==
    [op |-> op, svc |-> svc, pid |-> pid, arg |-> arg,
     ret |-> o.ret, raised |-> o.raised, io |-> o.io, pre |-> <<>>]

-----------------------------------------------------------------------------
(* Product records and the CSV file of ProductService.                      *)

\* str.strip()
RECURSIVE LStrip(_)
LStrip(s) == IF Len(s) > 0 /\ s[1] = " " THEN LStrip(Tail(s)) ELSE s

RECURSIVE RStrip(_)
RStrip(s) ==
    IF Len(s) > 0 /\ s[Len(s)] = " " THEN RStrip(SubSeq(s, 1, Len(s) - 1)) ELSE s

Strip(s) == RStrip(LStrip(s))

\* `not new_title or not new_title.strip()`
IsBlank(s) == s = <<>> \/ Strip(s) = <<>>

\* The strings handed to the tools: empty, whitespace only, plain, padded
\* with whitespace on one side, and one of the tokens pandas reads as NaN.
StrArgs == {<<>>, <<" ">>, <<"N">>, <<"A">>, <<"N", " ">>, <<"N", "A">>}

MissingId == "B0MISSING"
ToolIds == ProductIds \cup {MissingId}

Product(id, title, bullets, images, category, brand, description) ==
    [product_id |-> id, title |-> title, universe |-> None,
     image_url |-> images, bullet_points |-> bullets,
     min_rank_search |-> Some(1), avg_rank_search |-> None,
     min_rank_category |-> None, avg_rank_category |-> None,
     retailer_category_node |-> category, retailer_brand_name |-> brand,
     description_filled |-> description, source_product_id |-> None]

\* Cells that pandas.read_csv turns into NaN: the empty cell and the default
\* na_values (of which "NA" can be spelled here).
NaValues == {<<"N", "A">>}

\* DataFrame.to_csv of an Optional[str] value: None and "" are both written
\* as an empty cell.
StrCell(v) == IF IsNone(v) \/ Val(v) = <<>> THEN None ELSE v

\* `json.dumps(product.bullet_points) if product.bullet_points else None`:
\* None and the empty list are written as an empty cell.
ListCell(v) == IF IsNone(v) \/ Val(v) = <<>> THEN None ELSE v

\* The row save_to_csv builds for a product (product_dict), as written.
CsvRow(product) ==
    [product_id |-> product.product_id,
     title |-> StrCell(Some(product.title)),
     universe |-> StrCell(product.universe),
     image_url |-> ListCell(product.image_url),
     bullet_points |-> ListCell(product.bullet_points),
     min_rank_search |-> product.min_rank_search,
     avg_rank_search |-> product.avg_rank_search,
     min_rank_category |-> product.min_rank_category,
     avg_rank_category |-> product.avg_rank_category,
     retailer_category_node |-> StrCell(product.retailer_category_node),
     retailer_brand_name |-> StrCell(product.retailer_brand_name),
     description_filled |-> StrCell(product.description_filled),
     source_product_id |-> StrCell(product.source_product_id)]

\* pandas.read_csv plus _row_to_dict on a string cell: NaN becomes None.
ReadStrCell(cell) ==
    IF IsNone(cell) \/ Val(cell) \in NaValues THEN None ELSE cell

\* _row_to_dict: the keyword arguments of Product(**product_data).
RowToDict(row) ==
    [product_id |-> row.product_id,
     title |-> ReadStrCell(row.title),
     universe |-> ReadStrCell(row.universe),
     image_url |-> row.image_url,
     bullet_points |-> row.bullet_points,
     min_rank_search |-> row.min_rank_search,
     avg_rank_search |-> row.avg_rank_search,
     min_rank_category |-> row.min_rank_category,
     avg_rank_category |-> row.avg_rank_category,
     retailer_category_node |-> ReadStrCell(row.retailer_category_node),
     retailer_brand_name |-> ReadStrCell(row.retailer_brand_name),
     description_filled |-> ReadStrCell(row.description_filled),
     source_product_id |-> ReadStrCell(row.source_product_id)]

\* Product(**data) validates: title is `str`, None is rejected.
Validates(data) == ~IsNone(data.title)

\* The Product built from validated data.
ToProduct(data) == [data EXCEPT !.title = Val(data.title)]

\* The file: readable with rows, or cut short by a failed write.
CsvFile(rows) == [readable |-> TRUE, rows |-> rows]
TruncatedCsv == [readable |-> FALSE, rows |-> <<>>]

RECURSIVE LastIndexOf(_, _, _)
\* {product.product_id: product for product in self.products}: the last
\* product of an id wins; 0 when the id is absent.
LastIndexOf(list, id, n) ==
    IF n = 0 THEN 0
    ELSE IF list[n].product_id = id THEN n
    ELSE LastIndexOf(list, id, n - 1)

Store(heap, list, index) ==
    [objs |-> heap, products |-> list, products_by_id |-> index]

\* load_from_csv: builds every Product before it assigns; an exception of
\* read_csv or of the validation leaves the store as it was.
LoadFromCsv(file) ==
    IF ~file.readable
    THEN [ok |-> FALSE]
    ELSE LET datas == [i \in 1 .. Len(file.rows) |-> RowToDict(file.rows[i])]
         IN  IF \E i \in 1 .. Len(datas) : ~Validates(datas[i])
             THEN [ok |-> FALSE]
             ELSE LET heap == [i \in 1 .. Len(datas) |-> ToProduct(datas[i])]
                  IN  [ok |-> TRUE,
                       store |-> Store(heap,
                                       [i \in 1 .. Len(heap) |-> i],
                                       [id \in ToolIds |-> LastIndexOf(heap, id, Len(heap))])]

\* get_product_by_id: the reference held by _products_by_id, 0 for None.
GetProductById(st, product_id) == st.products_by_id[product_id]

RECURSIVE FirstWithId(_, _, _)
\* the loop of update_product: the first list position holding the id
FirstWithId(st, id, i) ==
    IF i > Len(st.products) THEN 0
    ELSE IF st.objs[st.products[i]].product_id = id THEN i
    ELSE FirstWithId(st, id, i + 1)

\* update_product, for a product object at reference ref
UpdateProduct(st, ref) ==
    LET id == st.objs[ref].product_id
        i == FirstWithId(st, id, 1)
    IN  IF st.products_by_id[id] = 0
        THEN [ok |-> FALSE, store |-> st]
        ELSE [ok |-> TRUE,
              store |-> [st EXCEPT !.products_by_id[id] = ref,
                                   !.products =
                                       IF i = 0 THEN @ ELSE [@ EXCEPT ![i] = ref]]]

\* save_to_csv: the rows of self.products, in list order
SaveToCsv(st) ==
    CsvFile([i \in 1 .. Len(st.products) |-> CsvRow(st.objs[st.products[i]])])

SaveResult(st, file, raised, io) ==
    [store |-> st, csv |-> file, raised |-> raised, io |-> io]

\* save_and_reload: save_to_csv, then load_from_csv of the written file.
\* to_csv can fail before it has opened the file or while it writes; the
\* reload raises when a written row no longer validates.
SaveAndReloadOutcomes(st, file) ==
    LET written == SaveToCsv(st)
        loaded == LoadFromCsv(written)
    IN  {SaveResult(st, file, "IOError", "open_failed"),
         SaveResult(st, TruncatedCsv, "IOError", "write_failed"),
         IF loaded.ok
         THEN SaveResult(loaded.store, written, "", "ok")
         ELSE SaveResult(st, written, "ValidationError", "reload_failed")}

-----------------------------------------------------------------------------
(* The product-update tools (finalize/subagents/update/tools.py).  A tool   *)
(* takes the store and the file and yields its possible outcomes.           *)

Success(message) == [result |-> "success", message |-> message]
Failure(error) == [result |-> "failure", error |-> error]

ToolResult(st, file, ret, io) ==
    [store |-> st, csv |-> file, ret |-> ret, io |-> io]

\* The tail of every update tool: update_product and save_and_reload in a
\* try block whose except returns a failure; then the success result.
Persist(st, ref, file, message) ==
    LET updated == UpdateProduct(st, ref)
    IN  IF ~updated.ok
        THEN {ToolResult(st, file, Failure("Failed to save changes to disk"), "")}
        ELSE {ToolResult(r.store, r.csv,
                         IF r.raised = "" THEN Success(message)
                         ELSE Failure("Failed to save changes to disk"),
                         r.io)
              : r \in SaveAndReloadOutcomes(updated.store, file)}

\* update_product_title: the title is stored as given, not stripped.
UpdateProductTitle_NoStrip(st, file, product_id, new_title) ==
    LET ref == GetProductById(st, product_id)
    IN  IF ref = 0
        THEN {ToolResult(st, file, Failure("Product not found"), "")}
        ELSE IF IsBlank(new_title)
        THEN {ToolResult(st, file, Failure("New title cannot be empty"), "")}
        ELSE Persist([st EXCEPT !.objs[ref].title = new_title], ref, file,
                     "Successfully updated product title")

\* update_product_title
UpdateProductTitle(st, file, product_id, new_title) ==
    LET ref == GetProductById(st, product_id)
    IN  IF ref = 0
        THEN {ToolResult(st, file, Failure("Product not found"), "")}
        ELSE IF IsBlank(new_title)
        THEN {ToolResult(st, file, Failure("New title cannot be empty"), "")}
        ELSE Persist([st EXCEPT !.objs[ref].title = Strip(new_title)], ref, file,
                     "Successfully updated product title")

\* update_product_description
UpdateProductDescription(st, file, product_id, new_description) ==
    LET ref == GetProductById(st, product_id)
    IN  IF ref = 0
        THEN {ToolResult(st, file, Failure("Product not found"), "")}
        ELSE IF IsBlank(new_description)
        THEN {ToolResult(st, file, Failure("New description cannot be empty"), "")}
        ELSE Persist([st EXCEPT !.objs[ref].description_filled =
                                    Some(Strip(new_description))],
                     ref, file, "Successfully updated product description")

\* update_product_category
UpdateProductCategory(st, file, product_id, new_category) ==
    LET ref == GetProductById(st, product_id)
    IN  IF ref = 0
        THEN {ToolResult(st, file, Failure("Product not found"), "")}
        ELSE IF IsBlank(new_category)
        THEN {ToolResult(st, file, Failure("New category cannot be empty"), "")}
        ELSE Persist([st EXCEPT !.objs[ref].retailer_category_node =
                                    Some(Strip(new_category))],
                     ref, file, "Successfully updated product category")

\* update_product_brand
UpdateProductBrand(st, file, product_id, new_brand) ==
    LET ref == GetProductById(st, product_id)
    IN  IF ref = 0
        THEN {ToolResult(st, file, Failure("Product not found"), "")}
        ELSE IF IsBlank(new_brand)
        THEN {ToolResult(st, file, Failure("New brand name cannot be empty"), "")}
        ELSE Persist([st EXCEPT !.objs[ref].retailer_brand_name =
                                    Some(Strip(new_brand))],
                     ref, file, "Successfully updated product brand")

\* add_bullet_point: the blank check comes after the append.
AddBulletPoint_AppendFirst(st, file, product_id, bullet_point) ==
    LET ref == GetProductById(st, product_id)
    IN  IF ref = 0
        THEN {ToolResult(st, file, Failure("Product not found"), "")}
        ELSE LET old == st.objs[ref].bullet_points
                 list == IF IsNone(old) THEN <<>> ELSE Val(old)
                 appended == [st EXCEPT !.objs[ref].bullet_points =
                                            Some(Append(list, Strip(bullet_point)))]
             IN  IF IsBlank(bullet_point)
                 THEN {ToolResult(appended, file,
                                  Failure("Bullet point cannot be empty"), "")}
                 ELSE Persist(appended, ref, file, "Successfully added bullet point")

\* add_bullet_point
AddBulletPoint(st, file, product_id, bullet_point) ==
    LET ref == GetProductById(st, product_id)
    IN  IF ref = 0
        THEN {ToolResult(st, file, Failure("Product not found"), "")}
        ELSE IF IsBlank(bullet_point)
        THEN {ToolResult(st, file, Failure("Bullet point cannot be empty"), "")}
        ELSE LET old == st.objs[ref].bullet_points
                 list == IF IsNone(old) THEN <<>> ELSE Val(old)
             IN  Persist([st EXCEPT !.objs[ref].bullet_points =
                                        Some(Append(list, Strip(bullet_point)))],
                         ref, file, "Successfully added bullet point")

\* `x in list`
Contains(list, x) == \E i \in 1 .. Len(list) : list[i] = x

\* list.remove(x): the first occurrence goes, the rest keep their order.
ListRemove(list, x) ==
    LET i == CHOOSE k \in 1 .. Len(list) :
                 list[k] = x /\ \A j \in 1 .. (k - 1) : list[j] # x
    IN  SubSeq(list, 1, i - 1) \o SubSeq(list, i + 1, Len(list))

\* list.remove(x) taking every occurrence (the bug of a filtering remove).
ListRemoveAll(list, x) == SelectSeq(list, LAMBDA b : b # x)

\* remove_bullet_point built on a remove that drops every occurrence.
RemoveBulletPoint_RemoveAll(st, file, product_id, bullet_point) ==
    LET ref == GetProductById(st, product_id)
    IN  IF ref = 0
        THEN {ToolResult(st, file, Failure("Product not found"), "")}
        ELSE IF IsBlank(bullet_point)
        THEN {ToolResult(st, file, Failure("Bullet point cannot be empty"), "")}
        ELSE LET old == st.objs[ref].bullet_points
             IN  IF IsNone(old) \/ Val(old) = <<>>
                 THEN {ToolResult(st, file,
                                  Failure("Product has no bullet points to remove"), "")}
                 ELSE IF Contains(Val(old), Strip(bullet_point))
                 THEN Persist([st EXCEPT !.objs[ref].bullet_points =
                                   Some(ListRemoveAll(Val(old), Strip(bullet_point)))],
                              ref, file, "Successfully removed bullet point")
                 ELSE {ToolResult(st, file,
                                  Failure("Cannot remove bullet point. Bullet point not found."),
                                  "")}

\* remove_bullet_point
RemoveBulletPoint(st, file, product_id, bullet_point) ==
    LET ref == GetProductById(st, product_id)
    IN  IF ref = 0
        THEN {ToolResult(st, file, Failure("Product not found"), "")}
        ELSE IF IsBlank(bullet_point)
        THEN {ToolResult(st, file, Failure("Bullet point cannot be empty"), "")}
        ELSE LET old == st.objs[ref].bullet_points
             IN  IF IsNone(old) \/ Val(old) = <<>>
                 THEN {ToolResult(st, file,
                                  Failure("Product has no bullet points to remove"), "")}
                 ELSE IF Contains(Val(old), Strip(bullet_point))
                 THEN Persist([st EXCEPT !.objs[ref].bullet_points =
                                   Some(ListRemove(Val(old), Strip(bullet_point)))],
                              ref, file, "Successfully removed bullet point")
                 ELSE {ToolResult(st, file,
                                  Failure("Cannot remove bullet point. Bullet point not found."),
                                  "")}

-----------------------------------------------------------------------------
(* The lookup tools of the agents.  The tools of the competitor-report and  *)
(* recommendations agents return dicts; those of the finalize agents return *)
(* JSON text of a dict.  Messages keep their f-string placeholders.         *)

ListOrEmpty(o) == IF IsNone(o) THEN <<>> ELSE Val(o)

\* Python truthiness of an Optional[str] / Optional[list]
Truthy(o) == ~IsNone(o) /\ Val(o) # <<>>

RECURSIVE SumLen(_)
\* sum(len(bp) for bp in bullet_points)
SumLen(list) == IF list = <<>> THEN 0 ELSE Len(Head(list)) + SumLen(Tail(list))

\* the computed fields lookup_product and lookup_competitors add to
\* model_dump(); the average is kept as numerator and denominator
Metrics(product) ==
    LET bullets == ListOrEmpty(product.bullet_points)
    IN  [title_length |-> Len(product.title),
         num_bullet_points |-> Len(bullets),
         avg_bullet_length |->
             IF bullets # <<>> THEN [num |-> SumLen(bullets), den |-> Len(bullets)]
             ELSE [num |-> 0, den |-> 1],
         total_bullet_chars |-> SumLen(bullets),
         description_length |-> Len(ListOrEmpty(product.description_filled))]

\* competitor_report/tools.py lookup_product
LookupProduct(st, product_id) ==
    LET ref == GetProductById(st, product_id)
    IN  IF ref = 0
        THEN [error |-> "Product with ID {product_id} not found",
              product_id |-> product_id]
        ELSE st.objs[ref] @@ Metrics(st.objs[ref])

\* The competitor products loaded at import: one competitor generated from
\* B0TEST001, none from B0TEST002.
Competitors ==
    << [Product("B0COMP0001", <<"A">>, Some(<< <<"N">> >>), None, None, None, None)
           EXCEPT !.source_product_id = Some("B0TEST001")] >>

\* CompetitorProductService.get_competitors_for_product
GetCompetitorsForProduct(competitors, source_product_id) ==
    SelectSeq(competitors, LAMBDA c : c.source_product_id = Some(source_product_id))

\* lookup_competitors that answers an error when nothing is found
LookupCompetitors_ErrorOnNone(competitors, product_id) ==
    LET found == SelectSeq(competitors,
                           LAMBDA c : c.source_product_id = Some(product_id))
    IN  IF found = <<>>
        THEN [error |-> "No competitors found for product {product_id}",
              product_id |-> product_id]
        ELSE [source_product_id |-> product_id,
              num_competitors |-> Len(found),
              competitors |-> [i \in 1 .. Len(found) |-> found[i] @@ Metrics(found[i])]]

\* competitor_report/tools.py lookup_competitors
LookupCompetitors(competitors, product_id) ==
    LET found == GetCompetitorsForProduct(competitors, product_id)
    IN  IF found = <<>>
        THEN [source_product_id |-> product_id,
              num_competitors |-> 0,
              competitors |-> <<>>,
              message |-> "No competitors found for product {product_id}"]
        ELSE [source_product_id |-> product_id,
              num_competitors |-> Len(found),
              competitors |-> [i \in 1 .. Len(found) |-> found[i] @@ Metrics(found[i])]]

GuidelinesText == <<"a">>

\* recommendations/tools.py get_aws_guidelines: the PDF may be missing and
\* the extraction may raise.
GetAwsGuidelines ==
    {[ret |-> [error |-> "AWS Guidelines file not found at {guidelines_path}",
               status |-> "error"],
      io |-> "missing"],
     [ret |-> [error |-> "Failed to extract guidelines: {str(e)}",
               status |-> "error"],
      io |-> "extract_failed"],
     [ret |-> [guidelines_text |-> GuidelinesText, source |-> "AWS-Guidelines.pdf",
               length |-> Len(GuidelinesText), status |-> "success"],
      io |-> "ok"]}

LookupResult(mem, ret, io) == [mem |-> mem, ret |-> ret, io |-> io]

\* recommendations/tools.py get_competitor_report
RecommendationsGetCompetitorReport(mem, dir, product_id) ==
    {LookupResult(o.cache,
                  IF Truthy(o.ret)
                  THEN [report |-> Val(o.ret), product_id |-> product_id,
                        length |-> Len(Val(o.ret)), status |-> "success"]
                  ELSE [report |-> <<>>, product_id |-> product_id,
                        status |-> "info",
                        message |-> "No competitor report available."],
                  o.io)
     : o \in GetOutcomes(mem, dir, product_id)}

\* recommendations/tools.py get_product_details
GetProductDetails(st, product_id) ==
    LET ref == GetProductById(st, product_id)
    IN  IF ref = 0
        THEN [error |-> "Product with ID {product_id} not found",
              product_id |-> product_id, status |-> "error"]
        ELSE LET product == st.objs[ref]
                 bullets == ListOrEmpty(product.bullet_points)
             IN  product @@ Metrics(product) @@
                 [bullet_point_lengths |-> [i \in 1 .. Len(bullets) |-> Len(bullets[i])],
                  has_image |-> Truthy(product.image_url),
                  num_images |-> Len(ListOrEmpty(product.image_url))]

\* update/tools.py get_product_recommendations
UpdateGetProductRecommendations(mem, dir, product_id) ==
    {LookupResult(o.cache,
                  IF Truthy(o.ret)
                  THEN [result |-> "success", recommendations |-> Val(o.ret)]
                  ELSE Failure("No recommendations found for product {product_id}"),
                  o.io)
     : o \in GetOutcomes(mem, dir, product_id)}

\* summarize/tools.py get_product_info: answers like lookup_product.
SummarizeGetProductInfo_NoResult(st, product_id) ==
    LET ref == GetProductById(st, product_id)
    IN  IF ref = 0
        THEN [error |-> "Product {product_id} not found", product_id |-> product_id]
        ELSE [product |-> st.objs[ref]]

\* summarize/tools.py get_product_info
SummarizeGetProductInfo(st, product_id) ==
    LET ref == GetProductById(st, product_id)
    IN  IF ref = 0
        THEN Failure("Product {product_id} not found")
        ELSE LET product == st.objs[ref]
             IN  [result |-> "success",
                  product |->
                      [product_id |-> product.product_id,
                       title |-> product.title,
                       universe |-> product.universe,
                       brand |-> product.retailer_brand_name,
                       category |-> product.retailer_category_node,
                       description |-> product.description_filled,
                       bullet_points |-> product.bullet_points,
                       image_url |-> IF Truthy(product.image_url)
                                     THEN Some(Head(Val(product.image_url)))
                                     ELSE None,
                       min_rank_search |-> product.min_rank_search,
                       avg_rank_search |-> product.avg_rank_search,
                       min_rank_category |-> product.min_rank_category,
                       avg_rank_category |-> product.avg_rank_category]]

\* summarize/tools.py get_competitor_report that leaves an empty text in the
\* memory map of the report service for the product it looked up
SummarizeGetCompetitorReport_Overwrite(mem, dir, product_id) ==
    {LookupResult(IF product_id \in DOMAIN mem
                  THEN [o.cache EXCEPT ![product_id] = Some(<<>>)]
                  ELSE o.cache,
                  IF Truthy(o.ret)
                  THEN [result |-> "success", report |-> Val(o.ret)]
                  ELSE Failure("No competitor report found for product {product_id}"),
                  o.io)
     : o \in GetOutcomes(mem, dir, product_id)}

\* summarize/tools.py get_competitor_report
SummarizeGetCompetitorReport(mem, dir, product_id) ==
    {LookupResult(o.cache,
                  IF Truthy(o.ret)
                  THEN [result |-> "success", report |-> Val(o.ret)]
                  ELSE Failure("No competitor report found for product {product_id}"),
                  o.io)
     : o \in GetOutcomes(mem, dir, product_id)}

\* summarize/tools.py get_product_recommendations: a miss is remembered as
\* empty recommendations.
SummarizeGetProductRecommendations_CacheMiss(mem, dir, product_id) ==
    {LookupResult(IF Truthy(o.ret) \/ product_id \notin DOMAIN mem THEN o.cache
                  ELSE [o.cache EXCEPT ![product_id] = Some(<<>>)],
                  IF Truthy(o.ret)
                  THEN [result |-> "success", recommendations |-> Val(o.ret)]
                  ELSE Failure("No recommendations found for product {product_id}"),
                  o.io)
     : o \in GetOutcomes(mem, dir, product_id)}

\* summarize/tools.py get_product_recommendations
SummarizeGetProductRecommendations(mem, dir, product_id) ==
    {LookupResult(o.cache,
                  IF Truthy(o.ret)
                  THEN [result |-> "success", recommendations |-> Val(o.ret)]
                  ELSE Failure("No recommendations found for product {product_id}"),
                  o.io)
     : o \in GetOutcomes(mem, dir, product_id)}

-----------------------------------------------------------------------------
(* AgentService: one invocation of an agent and its event stream.           *)

\* ProductService over a products file that does not exist: nothing loaded.
NoProducts ==
    /\ objs = <<>>
    /\ products = <<>>
    /\ products_by_id = [p \in ToolIds |-> 0]
    /\ csv = TruncatedCsv
    /\ ncalls = 0

NoConc == [pc |-> "idle"]

\* An event of runner.run_async as _extract_final_response looks at it:
\* its content (None, or an object with a list of parts) and the text of
\* each part (None for a part that is a function call).
TextEvent(text) == [content |-> Some([parts |-> << [text |-> Some(text)] >>])]
FunctionCallEvent == [content |-> Some([parts |-> << [text |-> None] >>])]
NoContentEvent == [content |-> None]
NoPartsEvent == [content |-> Some([parts |-> <<>>])]

\* The events runner.run_async may yield: a final text answer, an event whose
\* first part is a function call (its .text is None), an event without
\* content.
Events == {TextEvent(<<"a">>), FunctionCallEvent, NoContentEvent}

\* str(final_event)
Str(event) ==
    IF IsNone(event.content) THEN <<"Event(content=None)">>
    ELSE <<"Event(content=Content(parts=[]))">>

\* _extract_final_response that looks at the first buffered event instead
\* of the last one
ExtractFinalResponse_FirstEvent(events) ==
    IF events = <<>> THEN Some(<<"No response generated">>)
    ELSE LET final_event == events[1]
         IN  IF ~IsNone(final_event.content)
                    /\ Val(final_event.content).parts # <<>>
             THEN Val(final_event.content).parts[1].text
             ELSE Some(Str(final_event))

\* AgentService._extract_final_response; None when parts[0].text is None
ExtractFinalResponse(events) ==
    IF events = <<>> THEN Some(<<"No response generated">>)
    ELSE LET final_event == events[Len(events)]
         IN  IF ~IsNone(final_event.content)
                    /\ Val(final_event.content).parts # <<>>
             THEN Val(final_event.content).parts[1].text
             ELSE Some(Str(final_event))

\* the except branch of run_*: the partial events are run through the
\* normal tail (extract and save) before the ValueError is raised.
RunRaised_SavePartial(mem, dir, product_id, events) ==
    {Outcome(o.cache, o.files, None, "ValueError", "stream_raised")
     : o \in SaveOutcomes(mem, dir, product_id, ListOrEmpty(ExtractFinalResponse(events)))}

\* the except branch of run_competitor_report / run_recommendations /
\* run_final_agent: raise ValueError('Agent execution failed: ...')
RunRaised(mem, dir, product_id, events) ==
    {Outcome(mem, dir, None, "ValueError", "stream_raised")}

\* the tail of run_* if the timeout were enforced: an invocation that took
\* longer than timeout_seconds raises TimeoutError instead of saving.
RunFinished_TimeoutEnforced(mem, dir, product_id, events) ==
    IF run.elapsed > run.timeout_seconds
    THEN {Outcome(mem, dir, None, "TimeoutError", "timeout")}
    ELSE LET report == ExtractFinalResponse(events)
         IN  {Outcome(o.cache, o.files, IF o.raised = "" THEN report ELSE None,
                      o.raised, o.io)
              : o \in SaveOutcomes(mem, dir, product_id, ListOrEmpty(report))}

\* the tail of run_* without the save: the final response is returned only
RunFinished_ReturnOnly(mem, dir, product_id, events) ==
    LET report == ExtractFinalResponse(events)
    IN  IF Truthy(report)
        THEN {Outcome(mem, dir, report, "", "ok")}
        ELSE {Outcome(mem, dir, None, "ValueError", "")}

\* the tail of run_*: extract the final response, save it, return it.  An
\* exception of the save leaves through the caller.
RunFinished(mem, dir, product_id, events) ==
    LET report == ExtractFinalResponse(events)
    IN  {Outcome(o.cache, o.files, IF o.raised = "" THEN report ELSE None,
                 o.raised, o.io)
         : o \in SaveOutcomes(mem, dir, product_id, ListOrEmpty(report))}

NoRun == [pc |-> "idle", op |-> "", svc |-> "", pid |-> EmptyId, stage |-> 0,
          events |-> <<>>, started |-> 0, session |-> <<>>, pre |-> <<>>,
          timeout_seconds |-> 0, elapsed |-> 0,
          session_id |-> 0, sessions |-> {}, messages |-> 0]

\* str(uuid.uuid4()): an id that no invocation made before by the same
\* caller has drawn
NewSessionId == IF "runs" \in DOMAIN conc THEN Len(conc.runs) + 1 ELSE 1

\* an invocation whose InMemorySessionService is one object shared by all
\* invocations of the process: the sessions of the earlier ones are in it
StartRun_SharedSessions(op, svc, pid, stage, state, timeout_seconds) ==
    [pc |-> "streaming", op |-> op, svc |-> svc, pid |-> pid, stage |-> stage,
     events |-> <<>>, started |-> 1, session |-> state,
     pre |-> [cache |-> cache[svc], files |-> files[svc]],
     timeout_seconds |-> timeout_seconds, elapsed |-> 0,
     session_id |-> NewSessionId,
     sessions |-> 1 .. NewSessionId,
     messages |-> 1]

\* session creation and Runner construction up to the first run_async: a
\* new InMemorySessionService holding the one session created in it
\* (`sessions`), and the one user message handed to run_async (`messages`)
\* timeout_seconds is a parameter of run_*; elapsed is the time the stream
\* has taken so far
StartRun(op, svc, pid, stage, state, timeout_seconds) ==
    [pc |-> "streaming", op |-> op, svc |-> svc, pid |-> pid, stage |-> stage,
     events |-> <<>>, started |-> 1, session |-> state,
     pre |-> [cache |-> cache[svc], files |-> files[svc]],
     timeout_seconds |-> timeout_seconds, elapsed |-> 0,
     session_id |-> NewSessionId,
     sessions |-> {NewSessionId},
     messages |-> 1]

-----------------------------------------------------------------------------
(* SpecCache: calls on one cache service, one at a time.  The services      *)
(* share no state, so a behaviour exercises one of them: a call on a        *)
(* service is taken while the other two are untouched.                      *)

OthersUntouched(svc) ==
    \A s \in Services \ {svc} : cache[s] = EmptyCache /\ files[s] = EmptyDir

CacheStep(op, svc, pid, arg, o) ==
    /\ OthersUntouched(svc)
    /\ cache' = [cache EXCEPT ![svc] = o.cache]
    /\ files' = [files EXCEPT ![svc] = o.files]
    /\ last' = Call(op, svc, pid, arg, o)
    /\ UNCHANGED <<objs, products, products_by_id, csv, ncalls, run, conc>>

Save(svc, pid, text) ==
    \E o \in SaveOutcomes(cache[svc], files[svc], pid, text) :
        CacheStep("save", svc, pid, text, o)

Get(svc, pid) ==
    \E o \in GetOutcomes(cache[svc], files[svc], pid) :
        CacheStep("get", svc, pid, <<>>, o)

Has(svc, pid) ==
    \E o \in HasOutcomes(cache[svc], files[svc], pid) :
        CacheStep("has", svc, pid, <<>>, o)

Delete(svc, pid) ==
    \E o \in DeleteOutcomes(cache[svc], files[svc], pid) :
        CacheStep("delete", svc, pid, <<>>, o)

ClearCache(svc) ==
    \E o \in ClearCacheOutcomes(cache[svc], files[svc]) :
        CacheStep("clear_cache", svc, EmptyId, <<>>, o)

InitCache ==
    /\ cache = [s \in Services |-> EmptyCache]
    /\ files = [s \in Services |-> EmptyDir]
    /\ last = NoCall
    /\ run = NoRun
    /\ conc = NoConc
    /\ NoProducts

NextCache ==
    \/ \E svc \in Services, pid \in IdArgs, text \in Texts : Save(svc, pid, text)
    \/ \E svc \in Services, pid \in IdArgs : Get(svc, pid)
    \/ \E svc \in Services, pid \in IdArgs : Has(svc, pid)
    \/ \E svc \in Services, pid \in IdArgs : Delete(svc, pid)
    \/ \E svc \in Services : ClearCache(svc)

SpecCache == InitCache /\ [][NextCache]_vars

-----------------------------------------------------------------------------
(* Claims about the caches, checked under SpecCache.                        *)

\* The key has neither a dict entry nor a file in the service.
Unseen(svc, pid) ==
    pid = EmptyId \/ (IsNone(cache[svc][pid]) /\ IsNone(files[svc][pid]))

C3_GetUnseen ==
    [][\A svc \in Services, pid \in IdArgs :
         (last'.op = "get" /\ last'.svc = svc /\ last'.pid = pid /\ Unseen(svc, pid))
            => /\ last'.ret = None
               /\ last'.raised = ""
               /\ cache' = cache
               /\ files' = files]_vars

\* A get missed on one key while another key of the service is stored.
C3_Witness ==
    /\ last.op = "get"
    /\ last.pid \in ProductIds
    /\ last.ret = None
    /\ last.io = ""
    /\ Unseen(last.svc, last.pid)
    /\ \E q \in ProductIds : ~IsNone(cache[last.svc][q]) /\ ~IsNone(files[last.svc][q])

-----------------------------------------------------------------------------
(* SpecTools: tool calls made one at a time on the stores loaded at import. *)

Row(product) == [product EXCEPT !.title = Some(@)]

\* Two products files as a user may have authored them.  In the second one
\* a product has a repeated bullet, the other a bullet padded with a blank,
\* and one image_url cell holds the JSON text of an empty list.
ProductsFileA ==
    CsvFile(<<Row(Product("B0TEST001", <<"N">>, Some(<< <<"N">>, <<"A">> >>),
                          Some(<< <<"N">> >>), Some(<<"A">>), Some(<<"A">>),
                          Some(<<"N">>))),
              Row(Product("B0TEST002", <<"A">>, None, None, None, None, None))>>)

ProductsFileB ==
    CsvFile(<<Row(Product("B0TEST001", <<"A">>,
                          Some(<< <<"N">>, <<"A">>, <<"N">> >>),
                          Some(<<>>), None, Some(<<"N">>), None)),
              Row(Product("B0TEST002", <<"N">>, Some(<< <<"N", " ">> >>),
                          Some(<< <<"A">> >>), Some(<<"N">>), None,
                          Some(<<"A">>)))>>)

CurrentStore == Store(objs, products, products_by_id)

\* ProductService.__init__: load_from_csv of the products file.
InitProducts ==
    /\ csv \in {ProductsFileA, ProductsFileB}
    /\ LoadFromCsv(csv).ok
    /\ objs = LoadFromCsv(csv).store.objs
    /\ products = LoadFromCsv(csv).store.products
    /\ products_by_id = LoadFromCsv(csv).store.products_by_id
    /\ ncalls = 0

ToolCall(op, pid, arg, o) ==
    [op |-> op, svc |-> "product_service", pid |-> pid, arg |-> arg,
     ret |-> o.ret, raised |-> "", io |-> o.io,
     pre |-> [store |-> CurrentStore, csv |-> csv]]

UpdateStep(op, pid, arg, o) ==
    /\ ncalls' = ncalls + 1
    /\ objs' = o.store.objs
    /\ products' = o.store.products
    /\ products_by_id' = o.store.products_by_id
    /\ csv' = o.csv
    /\ last' = ToolCall(op, pid, arg, o)
    /\ UNCHANGED <<cache, files, run, conc>>

update_product_title(pid, arg) ==
    /\ ncalls < MaxCalls
    /\ \E o \in UpdateProductTitle(CurrentStore, csv, pid, arg) :
           UpdateStep("update_product_title", pid, arg, o)

update_product_description(pid, arg) ==
    /\ ncalls < MaxCalls
    /\ \E o \in UpdateProductDescription(CurrentStore, csv, pid, arg) :
           UpdateStep("update_product_description", pid, arg, o)

update_product_category(pid, arg) ==
    /\ ncalls < MaxCalls
    /\ \E o \in UpdateProductCategory(CurrentStore, csv, pid, arg) :
           UpdateStep("update_product_category", pid, arg, o)

update_product_brand(pid, arg) ==
    /\ ncalls < MaxCalls
    /\ \E o \in UpdateProductBrand(CurrentStore, csv, pid, arg) :
           UpdateStep("update_product_brand", pid, arg, o)

add_bullet_point(pid, arg) ==
    /\ ncalls < MaxCalls
    /\ \E o \in AddBulletPoint(CurrentStore, csv, pid, arg) :
           UpdateStep("add_bullet_point", pid, arg, o)

remove_bullet_point(pid, arg) ==
    /\ ncalls < MaxCalls
    /\ \E o \in RemoveBulletPoint(CurrentStore, csv, pid, arg) :
           UpdateStep("remove_bullet_point", pid, arg, o)

UpdateTools == {"update_product_title", "update_product_description",
                "update_product_category", "update_product_brand",
                "add_bullet_point", "remove_bullet_point"}

\* A tool that reads the product store: nothing changes but the call record.
StoreLookupStep(op, pid, ret) ==
    /\ ncalls' = ncalls + 1
    /\ last' = [op |-> op, svc |-> "product_service", pid |-> pid, arg |-> <<>>,
                ret |-> ret, raised |-> "", io |-> "",
                pre |-> [store |-> CurrentStore, csv |-> csv]]
    /\ UNCHANGED <<cache, files, objs, products, products_by_id, csv, run, conc>>

\* A tool that reads a cache service: get may fill the memory entry.
CacheLookupStep(op, svc, pid, o) ==
    /\ ncalls' = ncalls + 1
    /\ cache' = [cache EXCEPT ![svc] = o.mem]
    /\ last' = [op |-> op, svc |-> svc, pid |-> pid, arg |-> <<>>,
                ret |-> o.ret, raised |-> "", io |-> o.io,
                pre |-> [store |-> CurrentStore, csv |-> csv]]
    /\ UNCHANGED <<files, objs, products, products_by_id, csv, run, conc>>

lookup_product(pid) ==
    /\ ncalls < MaxCalls
    /\ StoreLookupStep("lookup_product", pid, LookupProduct(CurrentStore, pid))

lookup_competitors(pid) ==
    /\ ncalls < MaxCalls
    /\ StoreLookupStep("lookup_competitors", pid, LookupCompetitors(Competitors, pid))

get_aws_guidelines ==
    /\ ncalls < MaxCalls
    /\ \E o \in GetAwsGuidelines :
           /\ ncalls' = ncalls + 1
           /\ last' = [op |-> "get_aws_guidelines", svc |-> "pdf_extractor",
                       pid |-> EmptyId, arg |-> <<>>, ret |-> o.ret, raised |-> "",
                       io |-> o.io, pre |-> [store |-> CurrentStore, csv |-> csv]]
           /\ UNCHANGED <<cache, files, objs, products, products_by_id, csv, run, conc>>

recommendations_get_competitor_report(pid) ==
    /\ ncalls < MaxCalls
    /\ \E o \in RecommendationsGetCompetitorReport(
                   cache["competitor_report_service"],
                   files["competitor_report_service"], pid) :
           CacheLookupStep("recommendations.get_competitor_report",
                           "competitor_report_service", pid, o)

get_product_details(pid) ==
    /\ ncalls < MaxCalls
    /\ StoreLookupStep("get_product_details", pid, GetProductDetails(CurrentStore, pid))

update_get_product_recommendations(pid) ==
    /\ ncalls < MaxCalls
    /\ \E o \in UpdateGetProductRecommendations(
                   cache["product_recommendation_service"],
                   files["product_recommendation_service"], pid) :
           CacheLookupStep("update.get_product_recommendations",
                           "product_recommendation_service", pid, o)

get_product_info(pid) ==
    /\ ncalls < MaxCalls
    /\ StoreLookupStep("get_product_info", pid, SummarizeGetProductInfo(CurrentStore, pid))

summarize_get_competitor_report(pid) ==
    /\ ncalls < MaxCalls
    /\ \E o \in SummarizeGetCompetitorReport(
                   cache["competitor_report_service"],
                   files["competitor_report_service"], pid) :
           CacheLookupStep("summarize.get_competitor_report",
                           "competitor_report_service", pid, o)

summarize_get_product_recommendations(pid) ==
    /\ ncalls < MaxCalls
    /\ \E o \in SummarizeGetProductRecommendations(
                   cache["product_recommendation_service"],
                   files["product_recommendation_service"], pid) :
           CacheLookupStep("summarize.get_product_recommendations",
                           "product_recommendation_service", pid, o)

\* The tools that answer with a dict and those that answer with JSON text.
DictTools == {"lookup_product", "lookup_competitors", "get_aws_guidelines",
              "recommendations.get_competitor_report", "get_product_details"}
JsonTools == UpdateTools \cup
             {"update.get_product_recommendations", "get_product_info",
              "summarize.get_competitor_report",
              "summarize.get_product_recommendations"}

\* The cache directories at import: a competitor report, recommendations
\* and a summary saved for B0TEST001 by earlier runs, and for B0TEST002 a
\* report file left empty by a write that failed after the file was opened.
SeededFiles ==
    [s \in Services |->
        IF s = "competitor_report_service"
        THEN [EmptyDir EXCEPT !["B0TEST001"] = Some(<<"a">>), !["B0TEST002"] = Some(<<>>)]
        ELSE IF s = "product_recommendation_service"
        THEN [EmptyDir EXCEPT !["B0TEST001"] = Some(<<"\r">>)]
        ELSE [EmptyDir EXCEPT !["B0TEST001"] = Some(<<"a">>)]]

InitTools ==
    /\ cache = [s \in Services |-> EmptyCache]
    /\ files = SeededFiles
    /\ last = NoCall
    /\ run = NoRun
    /\ conc = NoConc
    /\ InitProducts

NextTools ==
    \/ \E pid \in ToolIds, arg \in StrArgs : update_product_title(pid, arg)
    \/ \E pid \in ToolIds, arg \in StrArgs : update_product_description(pid, arg)
    \/ \E pid \in ToolIds, arg \in StrArgs : update_product_category(pid, arg)
    \/ \E pid \in ToolIds, arg \in StrArgs : update_product_brand(pid, arg)
    \/ \E pid \in ToolIds, arg \in StrArgs : add_bullet_point(pid, arg)
    \/ \E pid \in ToolIds, arg \in StrArgs : remove_bullet_point(pid, arg)
    \/ \E pid \in ToolIds : lookup_product(pid)
    \/ \E pid \in ToolIds : lookup_competitors(pid)
    \/ get_aws_guidelines
    \/ \E pid \in ToolIds : recommendations_get_competitor_report(pid)
    \/ \E pid \in ToolIds : get_product_details(pid)
    \/ \E pid \in ToolIds : update_get_product_recommendations(pid)
    \/ \E pid \in ToolIds : get_product_info(pid)
    \/ \E pid \in ToolIds : summarize_get_competitor_report(pid)
    \/ \E pid \in ToolIds : summarize_get_product_recommendations(pid)

SpecTools == InitTools /\ [][NextTools]_vars

-----------------------------------------------------------------------------
(* Claims about the product-update tools, checked under SpecTools.          *)

IsUpdateCall == last.op \in UpdateTools
Existed == last.pre.store.products_by_id[last.pid] # 0

\* get_product_by_id(pid) in a store, for an id it holds
ProductIn(st, pid) == st.objs[st.products_by_id[pid]]

BulletsOf(product) ==
    IF IsNone(product.bullet_points) THEN <<>> ELSE Val(product.bullet_points)

\* C4, as stated: for every existing product P and every non-empty new title
\* S, after update_product_title(P,S) has returned success,
\* get_product_by_id(P).title equals S, in memory and in the reloaded CSV.
C4_TitleIsArgument ==
    (last.op = "update_product_title" /\ last.ret.result = "success"
        /\ last.arg # <<>>)
        => /\ ProductIn(CurrentStore, last.pid).title = last.arg
           /\ LoadFromCsv(csv).ok
           /\ ProductIn(LoadFromCsv(csv).store, last.pid).title = last.arg

\* C4, amended: for every existing product P and every new title S that is
\* not blank, after update_product_title(P,S) has returned success,
\* get_product_by_id(P).title equals S stripped of its leading and trailing
\* whitespace, in memory and in the reloaded CSV.
C4_TitleRoundTrip ==
    (last.op = "update_product_title" /\ last.ret.result = "success")
        => /\ ~IsBlank(last.arg)
           /\ ProductIn(CurrentStore, last.pid).title = Strip(last.arg)
           /\ LoadFromCsv(csv).ok
           /\ ProductIn(LoadFromCsv(csv).store, last.pid).title = Strip(last.arg)

\* A padded title replaced a different one and came back from the CSV.
C4_Witness ==
    /\ last.op = "update_product_title"
    /\ last.ret.result = "success"
    /\ last.pid = "B0TEST001"
    /\ last.arg = <<"N", " ">>
    /\ ProductIn(last.pre.store, last.pid).title = <<"A">>
    /\ ProductIn(CurrentStore, last.pid).title = <<"N">>

\* C5: when save_and_reload fails inside an update tool call, the tool
\* returns a failure result and the update is not applied: afterwards
\* get_product_by_id(P) returns the product with the field values it had
\* before the call, and the CSV file still loads to the pre-call data.
C5_FailedSaveNotApplied ==
    (IsUpdateCall /\ last.io \in {"open_failed", "write_failed", "reload_failed"})
        => /\ last.ret.result = "failure"
           /\ ProductIn(CurrentStore, last.pid) = ProductIn(last.pre.store, last.pid)
           /\ LoadFromCsv(csv) = LoadFromCsv(last.pre.csv)

\* C6: an update tool called with an empty or whitespace-only string returns
\* a failure (for an existing product: the validation error) and leaves the
\* stored products unchanged, in memory and in the CSV file.
C6_BlankRejected ==
    (IsUpdateCall /\ IsBlank(last.arg))
        => /\ last.ret.result = "failure"
           /\ Existed => last.ret.error \in
                  {"New title cannot be empty", "New description cannot be empty",
                   "New category cannot be empty", "New brand name cannot be empty",
                   "Bullet point cannot be empty"}
           /\ CurrentStore = last.pre.store
           /\ csv = last.pre.csv

\* A whitespace-only bullet was refused for a product that has bullets.
C6_Witness ==
    /\ last.op = "add_bullet_point"
    /\ last.arg = <<" ">>
    /\ last.pid = "B0TEST001"
    /\ last.ret = Failure("Bullet point cannot be empty")
    /\ Len(BulletsOf(ProductIn(CurrentStore, last.pid))) = 3

\* list `new` is list `old` without its element at position i
Without(old, i) == SubSeq(old, 1, i - 1) \o SubSeq(old, i + 1, Len(old))

IsToolCall == last.op \in DictTools \cup JsonTools

\* the success/failure shape: a `result` of "success" or "failure", a
\* payload next to a success and an `error` next to a failure
HasResultShape(ret) ==
    /\ "result" \in DOMAIN ret
    /\ ret.result \in {"success", "failure"}
    /\ ret.result = "success" => DOMAIN ret \ {"result"} # {}
    /\ ret.result = "failure" => "error" \in DOMAIN ret

\* C8, as stated: every tool function bound to an agent returns, on every
\* path, a JSON object whose `result` field is "success" or "failure", with
\* a message or data payload on success and an `error` string on failure.
C8_EveryToolHasResult == IsToolCall => HasResultShape(last.ret)

\* C8, amended: the tools of the finalize agents (the six update tools,
\* get_product_recommendations, get_product_info and the summarizer's
\* get_competitor_report) return on every path an object whose `result` is
\* "success" or "failure", with a payload on success and an `error` on
\* failure.  The tools of the competitor-report and recommendations agents
\* return an object with no `result` field: lookup_product answers the
\* product's fields, or `error` and `product_id` when it is not found;
\* lookup_competitors answers source_product_id, num_competitors and
\* competitors; get_aws_guidelines and get_competitor_report carry a
\* `status` of "success", "error" or "info"; get_product_details answers
\* the product's fields, or `error` with `status` "error".
C8_ToolResults ==
    /\ last.op \in JsonTools => HasResultShape(last.ret)
    /\ last.op \in DictTools => "result" \notin DOMAIN last.ret
    /\ last.op \in {"lookup_product", "get_product_details"} =>
           IF last.pre.store.products_by_id[last.pid] = 0
           THEN /\ {"error", "product_id"} \subseteq DOMAIN last.ret
                /\ last.op = "get_product_details" => last.ret.status = "error"
           ELSE /\ "error" \notin DOMAIN last.ret
                /\ last.ret.product_id = last.pid
                /\ "status" \notin DOMAIN last.ret
    /\ last.op = "lookup_competitors" =>
           /\ {"source_product_id", "num_competitors", "competitors"}
                  \subseteq DOMAIN last.ret
           /\ last.ret.num_competitors = Len(last.ret.competitors)
           /\ "error" \notin DOMAIN last.ret
    /\ last.op = "get_aws_guidelines" =>
           /\ last.ret.status \in {"success", "error"}
           /\ last.ret.status = "error" <=> "error" \in DOMAIN last.ret
    /\ last.op = "recommendations.get_competitor_report" =>
           /\ last.ret.status \in {"success", "info"}
           /\ last.ret.status = "info" <=> last.ret.report = <<>>
           /\ "error" \notin DOMAIN last.ret

\* lookup_product was asked for a product the store does not hold and
\* answered with an error that carries no `result`.
C8_Witness ==
    /\ last.op = "lookup_product"
    /\ last.pid = MissingId
    /\ DOMAIN last.ret = {"error", "product_id"}

-----------------------------------------------------------------------------
(* SpecAgent: one AgentService invocation.  The runner is the environment:  *)
(* while the stream is open it yields events, lets the current agent call   *)
(* its tools for the product of the run, moves the sequential final agent   *)
(* to its next sub-agent, raises, or ends.  No time passes here (SpecTimeout *)
(* lets it pass), so one value of timeout_seconds stands for all.           *)

AgentArgs == {<<"N">>, <<" ">>}

Streaming(op) == run.pc = "streaming" /\ run.op = op

run_competitor_report(pid, timeout_seconds) ==
    /\ run.pc = "idle"
    /\ run' = StartRun("run_competitor_report", "competitor_report_service", pid, 0,
                       [product_id |-> pid], timeout_seconds)
    /\ UNCHANGED <<cache, files, objs, products, products_by_id, csv, last, ncalls, conc>>

\* run_recommendations reads the competitor report before it builds the agent
run_recommendations(pid, timeout_seconds) ==
    /\ run.pc = "idle"
    /\ \E o \in GetOutcomes(cache["competitor_report_service"],
                            files["competitor_report_service"], pid) :
           /\ cache' = [cache EXCEPT !["competitor_report_service"] = o.cache]
           /\ run' = StartRun("run_recommendations", "product_recommendation_service",
                              pid, 0,
                              IF Truthy(o.ret)
                              THEN [product_id |-> pid, competitor_report |-> Val(o.ret)]
                              ELSE [product_id |-> pid],
                              timeout_seconds)
    /\ UNCHANGED <<files, objs, products, products_by_id, csv, last, ncalls, conc>>

run_final_agent(pid, timeout_seconds) ==
    /\ run.pc = "idle"
    /\ run' = StartRun("run_final_agent", "summarization_service", pid, 1,
                       [product_id |-> pid], timeout_seconds)
    /\ UNCHANGED <<cache, files, objs, products, products_by_id, csv, last, ncalls, conc>>

\* events.append(event)
StreamEvent(e) ==
    /\ run.pc = "streaming"
    /\ Len(run.events) < MaxEvents
    /\ run' = [run EXCEPT !.events = Append(@, e)]
    /\ UNCHANGED <<cache, files, objs, products, products_by_id, csv, last, ncalls, conc>>

\* a sequence that gives up the remaining updates after a failed tool call
\* and goes straight to the summarizer
NextSubAgent_StopOnFailure ==
    /\ run.pc = "streaming"
    /\ run.op = "run_final_agent"
    /\ run.stage < 4
    /\ run' = [run EXCEPT !.stage = IF "result" \in DOMAIN last.ret
                                        /\ last.ret.result = "failure"
                                     THEN 4 ELSE @ + 1]
    /\ UNCHANGED <<cache, files, objs, products, products_by_id, csv, last, ncalls, conc>>

\* SequentialAgent: update agents 1, 2, 3, then the summarizer
NextSubAgent ==
    /\ run.pc = "streaming"
    /\ run.op = "run_final_agent"
    /\ run.stage < 4
    /\ run' = [run EXCEPT !.stage = @ + 1]
    /\ UNCHANGED <<cache, files, objs, products, products_by_id, csv, last, ncalls, conc>>

CompetitorReportAgentTool ==
    /\ Streaming("run_competitor_report")
    /\ \/ lookup_product(run.pid)
       \/ lookup_competitors(run.pid)

RecommendationsAgentTool ==
    /\ Streaming("run_recommendations")
    /\ \/ get_aws_guidelines
       \/ get_product_details(run.pid)
       \/ recommendations_get_competitor_report(run.pid)

UpdateAgentTool ==
    /\ Streaming("run_final_agent")
    /\ run.stage \in 1 .. 3
    /\ \/ update_get_product_recommendations(run.pid)
       \/ \E arg \in AgentArgs : update_product_title(run.pid, arg)
       \/ \E arg \in AgentArgs : update_product_description(run.pid, arg)
       \/ \E arg \in AgentArgs : update_product_category(run.pid, arg)
       \/ \E arg \in AgentArgs : update_product_brand(run.pid, arg)
       \/ \E arg \in AgentArgs : add_bullet_point(run.pid, arg)
       \/ \E arg \in AgentArgs : remove_bullet_point(run.pid, arg)

SummarizationAgentTool ==
    /\ Streaming("run_final_agent")
    /\ run.stage = 4
    /\ \/ get_product_info(run.pid)
       \/ summarize_get_competitor_report(run.pid)
       \/ summarize_get_product_recommendations(run.pid)

\* the completed invocation: the events it had collected are kept in `arg`
\* of the call record only; the local list is gone with the frame
RunCall(o) ==
    [op |-> run.op, svc |-> run.svc, pid |-> run.pid, arg |-> run.events,
     ret |-> o.ret, raised |-> o.raised, io |-> o.io, pre |-> run.pre]

EndRun(pc, o) ==
    /\ cache' = [cache EXCEPT ![run.svc] = o.cache]
    /\ files' = [files EXCEPT ![run.svc] = o.files]
    /\ run' = [run EXCEPT !.pc = pc, !.events = <<>>]
    /\ last' = RunCall(o)
    /\ UNCHANGED <<objs, products, products_by_id, csv, ncalls, conc>>

\* runner.run_async raises while the loop iterates
StreamRaise ==
    /\ run.pc = "streaming"
    /\ \E o \in RunRaised(cache[run.svc], files[run.svc], run.pid, run.events) :
           EndRun("raised", o)

\* the stream is exhausted; the sequential agent has run its last sub-agent
StreamEnd ==
    /\ run.pc = "streaming"
    /\ run.op = "run_final_agent" => run.stage = 4
    /\ \E o \in RunFinished(cache[run.svc], files[run.svc], run.pid, run.events) :
           EndRun(IF o.raised = "" THEN "returned" ELSE "raised", o)

InitAgent ==
    /\ cache = [s \in Services |-> EmptyCache]
    /\ files = SeededFiles
    /\ last = NoCall
    /\ run = NoRun
    /\ conc = NoConc
    /\ InitProducts

NextAgent ==
    \/ \E pid \in ProductIds : run_competitor_report(pid, MaxElapsed)
    \/ \E pid \in ProductIds : run_recommendations(pid, MaxElapsed)
    \/ \E pid \in ProductIds : run_final_agent(pid, MaxElapsed)
    \/ \E e \in Events : StreamEvent(e)
    \/ NextSubAgent
    \/ CompetitorReportAgentTool
    \/ RecommendationsAgentTool
    \/ UpdateAgentTool
    \/ SummarizationAgentTool
    \/ StreamRaise
    \/ StreamEnd

SpecAgent == InitAgent /\ [][NextAgent]_vars

AgentOps == {"run_competitor_report", "run_recommendations", "run_final_agent"}

\* C9: if the agent event stream raises during run_competitor_report,
\* run_recommendations or run_final_agent, the call ends by raising
\* ValueError to its caller, the stream was started once (nothing is
\* retried), and nothing is saved to the operation's cache: the cache and
\* its directory hold what they held before the call, and the events
\* received before the failure are not kept.
C9_StreamFailure ==
    (last.op \in AgentOps /\ last.io = "stream_raised")
        => /\ run.pc = "raised"
           /\ last.raised = "ValueError"
           /\ IsNone(last.ret)
           /\ run.started = 1
           /\ cache[last.svc] = last.pre.cache
           /\ files[last.svc] = last.pre.files
           /\ run.events = <<>>

\* The stream of run_final_agent raised after an event had been received
\* and a tool had changed the products, with a summary already on disk.
C9_Witness ==
    /\ last.op = "run_final_agent"
    /\ last.io = "stream_raised"
    /\ last.raised = "ValueError"
    /\ last.arg # <<>>
    /\ ncalls > 0
    /\ csv # ProductsFileA /\ csv # ProductsFileB
    /\ files[last.svc][last.pid] = Some(<<"a">>)

-----------------------------------------------------------------------------
(* SpecConc: two save_report calls for one key running in two threads.      *)
(* Nothing in the service locks, so the steps of a call (the dict           *)
(* assignment, open(file_path, 'w'), and the write flushed by the close of  *)
(* the with block) interleave freely with those of the other call.          *)

Writers == {1, 2}
ConcTexts == {<<"a">>, <<"c">>, <<"a", "b">>}
ConcService == "competitor_report_service"

\* the bytes of a file after `data` is flushed at offset 0 of a descriptor
\* opened before the file got its present content
Overwrite(content, data) ==
    IF Len(content) > Len(data)
    THEN data \o SubSeq(content, Len(data) + 1, Len(content))
    ELSE data

Writer(w) == conc.writer[w]

ConcStep(w, pc) == [conc EXCEPT !.writer[w].pc = pc]

\* self._reports_cache[product_id] = report
CacheWrite(w) ==
    /\ conc.pc = "running"
    /\ Writer(w).pc = "start"
    /\ cache' = [cache EXCEPT ![ConcService][conc.pid] = Some(Writer(w).text)]
    /\ conc' = [ConcStep(w, "cached") EXCEPT !.mem_order = Append(@, w)]
    /\ UNCHANGED <<files, objs, products, products_by_id, csv, last, ncalls, run>>

\* open(file_path, 'w'): the file is created or truncated
OpenFile(w) ==
    /\ conc.pc = "running"
    /\ Writer(w).pc = "cached"
    /\ files' = [files EXCEPT ![ConcService][conc.pid] = Some(<<>>)]
    /\ conc' = ConcStep(w, "opened")
    /\ UNCHANGED <<cache, objs, products, products_by_id, csv, last, ncalls, run>>

\* open raises: the call leaves with IOError
OpenFails(w) ==
    /\ conc.pc = "running"
    /\ Writer(w).pc = "cached"
    /\ conc' = ConcStep(w, "failed")
    /\ UNCHANGED <<cache, files, objs, products, products_by_id, csv, last, ncalls, run>>

\* f.write(report) and the close of the with block
WriteClose(w) ==
    /\ conc.pc = "running"
    /\ Writer(w).pc = "opened"
    /\ files' = [files EXCEPT ![ConcService][conc.pid] =
                     Some(Overwrite(Val(@), Writer(w).text))]
    /\ conc' = [ConcStep(w, "done") EXCEPT !.disk_order = Append(@, w)]
    /\ UNCHANGED <<cache, objs, products, products_by_id, csv, last, ncalls, run>>

\* the write raises after part of the text reached the file
WriteFails(w) ==
    /\ conc.pc = "running"
    /\ Writer(w).pc = "opened"
    /\ \E part \in PartialWrites(Writer(w).text) :
           files' = [files EXCEPT ![ConcService][conc.pid] = Some(Overwrite(Val(@), part))]
    /\ conc' = ConcStep(w, "failed")
    /\ UNCHANGED <<cache, objs, products, products_by_id, csv, last, ncalls, run>>

InitConc ==
    /\ cache = [s \in Services |-> EmptyCache]
    /\ files = SeededFiles
    /\ last = NoCall
    /\ run = NoRun
    /\ NoProducts
    /\ \E pid \in ProductIds, t1 \in ConcTexts, t2 \in ConcTexts :
           /\ t1 # t2
           /\ conc = [pc |-> "running", pid |-> pid,
                      writer |-> [w \in Writers |->
                                     [pc |-> "start", text |-> IF w = 1 THEN t1 ELSE t2]],
                      mem_order |-> <<>>, disk_order |-> <<>>]

NextConc ==
    \/ \E w \in Writers : CacheWrite(w)
    \/ \E w \in Writers : OpenFile(w)
    \/ \E w \in Writers : OpenFails(w)
    \/ \E w \in Writers : WriteClose(w)
    \/ \E w \in Writers : WriteFails(w)

SpecConc == InitConc /\ [][NextConc]_vars

\* C10: when two save calls for the same key with different texts run
\* concurrently, then after both have completed the value stored for the
\* key is the text of the call whose disk write happened last: the file
\* holds it and get(key) returns it.
C10_LastDiskWriteWins ==
    (conc.pc = "running" /\ \A w \in Writers : Writer(w).pc = "done")
        => LET winner == Writer(conc.disk_order[Len(conc.disk_order)]).text
           IN  /\ files[ConcService][conc.pid] = Some(winner)
               /\ GetReturns(ConcService, conc.pid) = {Some(winner)}

-----------------------------------------------------------------------------
(* SpecRace: two update tool calls on two different products, each in its   *)
(* own thread.  A call is a sequence of steps on the shared ProductService: *)
(* get_product_by_id, the assignment to the product's field,                *)
(* update_product, the rows save_to_csv collects, to_csv opening and        *)
(* writing the file, read_csv, and the two assignments of load_from_csv.    *)
(* load_from_csv builds new Product objects; objects of earlier loads stay  *)
(* on the heap as long as a call still holds them.                          *)

Threads == {1, 2}
RaceOps == {"update_product_title", "update_product_description"}
RaceArgs == {<<"X">>, <<"Y", " ">>}

Thread(t) == conc.thread[t]

\* the thread's locals after a step
Local(t, pc, name, value) ==
    [conc EXCEPT !.thread[t] = [@ EXCEPT !.pc = pc, ![name] = value]]

\* the value get_product_by_id(pid) shows for the field a tool sets
FieldOf(product, op) ==
    IF op = "update_product_title" THEN Some(product.title)
    ELSE product.description_filled

\* product = product_service.get_product_by_id(product_id)
GetProduct(t) ==
    /\ conc.pc = "threads"
    /\ Thread(t).pc = "start"
    /\ conc' = Local(t, "got", "ref", GetProductById(CurrentStore, Thread(t).pid))
    /\ UNCHANGED <<cache, files, objs, products, products_by_id, csv, last, ncalls, run>>

\* product.title = new_title.strip() / product.description_filled = ...
SetField(t) ==
    /\ conc.pc = "threads"
    /\ Thread(t).pc = "got"
    /\ objs' = IF Thread(t).op = "update_product_title"
               THEN [objs EXCEPT ![Thread(t).ref].title = Strip(Thread(t).arg)]
               ELSE [objs EXCEPT ![Thread(t).ref].description_filled =
                                      Some(Strip(Thread(t).arg))]
    /\ conc' = Local(t, "assigned", "ref", Thread(t).ref)
    /\ UNCHANGED <<cache, files, products, products_by_id, csv, last, ncalls, run>>

\* product_service.update_product(product)
CallUpdateProduct(t) ==
    /\ conc.pc = "threads"
    /\ Thread(t).pc = "assigned"
    /\ LET updated == UpdateProduct(CurrentStore, Thread(t).ref)
       IN  /\ products' = updated.store.products
           /\ products_by_id' = updated.store.products_by_id
    /\ conc' = Local(t, "updated", "ref", Thread(t).ref)
    /\ UNCHANGED <<cache, files, objs, csv, last, ncalls, run>>

\* save_to_csv: products_data collected from self.products
BuildRows(t) ==
    /\ conc.pc = "threads"
    /\ Thread(t).pc = "updated"
    /\ conc' = Local(t, "collected", "rows", SaveToCsv(CurrentStore).rows)
    /\ UNCHANGED <<cache, files, objs, products, products_by_id, csv, last, ncalls, run>>

\* df.to_csv: the file is opened for writing and is empty
OpenCsv(t) ==
    /\ conc.pc = "threads"
    /\ Thread(t).pc = "collected"
    /\ csv' = TruncatedCsv
    /\ conc' = Local(t, "opened", "rows", Thread(t).rows)
    /\ UNCHANGED <<cache, files, objs, products, products_by_id, last, ncalls, run>>

\* df.to_csv: the rows are written and the file is closed
WriteCsv(t) ==
    /\ conc.pc = "threads"
    /\ Thread(t).pc = "opened"
    /\ csv' = CsvFile(Thread(t).rows)
    /\ conc' = Local(t, "written", "rows", Thread(t).rows)
    /\ UNCHANGED <<cache, files, objs, products, products_by_id, last, ncalls, run>>

\* read_csv under a lock that save_and_reload would hold from its first
\* step to its last: the call waits while the other call is inside.
ReadCsv_Locked(t) ==
    /\ conc.pc = "threads"
    /\ Thread(t).pc = "written"
    /\ \A u \in Threads \ {t} :
           Thread(u).pc \notin {"collected", "opened", "written", "read", "listed"}
    /\ conc' = IF LoadFromCsv(csv).ok
               THEN Local(t, "read", "df", csv)
               ELSE Local(t, "done", "ret", Failure("Failed to save changes to disk"))
    /\ UNCHANGED <<cache, files, objs, products, products_by_id, csv, last, ncalls, run>>

\* load_from_csv: df = pd.read_csv(csv_file_path); a file another call has
\* just opened for writing has no columns and read_csv raises, and so does
\* the validation of a row: the tool returns its failure result
ReadCsv(t) ==
    /\ conc.pc = "threads"
    /\ Thread(t).pc = "written"
    /\ conc' = IF LoadFromCsv(csv).ok
               THEN Local(t, "read", "df", csv)
               ELSE Local(t, "done", "ret", Failure("Failed to save changes to disk"))
    /\ UNCHANGED <<cache, files, objs, products, products_by_id, csv, last, ncalls, run>>

\* load_from_csv: self.products = self._dataframe_to_products(df)
AssignProducts(t) ==
    /\ conc.pc = "threads"
    /\ Thread(t).pc = "read"
    /\ LET loaded == LoadFromCsv(Thread(t).df).store
       IN  /\ objs' = objs \o loaded.objs
           /\ products' = [i \in 1 .. Len(loaded.products) |-> Len(objs) + loaded.products[i]]
    /\ conc' = Local(t, "listed", "base", Len(objs))
    /\ UNCHANGED <<cache, files, products_by_id, csv, last, ncalls, run>>

\* load_from_csv: self._products_by_id = {...}; save_and_reload returns and
\* the tool returns its success result
AssignIndex(t) ==
    /\ conc.pc = "threads"
    /\ Thread(t).pc = "listed"
    /\ LET index == LoadFromCsv(Thread(t).df).store.products_by_id
       IN  products_by_id' = [id \in ToolIds |->
                                 IF index[id] = 0 THEN 0 ELSE Thread(t).base + index[id]]
    /\ conc' = Local(t, "done", "ret", Success("Successfully updated product"))
    /\ UNCHANGED <<cache, files, objs, products, csv, last, ncalls, run>>

ThreadStep(t) ==
    \/ GetProduct(t) \/ SetField(t) \/ CallUpdateProduct(t) \/ BuildRows(t)
    \/ OpenCsv(t) \/ WriteCsv(t) \/ ReadCsv(t) \/ AssignProducts(t) \/ AssignIndex(t)

InitRace ==
    /\ cache = [s \in Services |-> EmptyCache]
    /\ files = SeededFiles
    /\ last = NoCall
    /\ run = NoRun
    /\ InitProducts
    /\ \E op1 \in RaceOps, op2 \in RaceOps, arg1 \in RaceArgs, arg2 \in RaceArgs :
           conc = [pc |-> "threads",
                   thread |-> [t \in Threads |->
                       [pc |-> "start",
                        op |-> IF t = 1 THEN op1 ELSE op2,
                        pid |-> IF t = 1 THEN "B0TEST001" ELSE "B0TEST002",
                        arg |-> IF t = 1 THEN arg1 ELSE arg2,
                        ref |-> 0, rows |-> <<>>, df |-> TruncatedCsv, base |-> 0,
                        ret |-> None]]]

NextRace ==
    \/ \E t \in Threads : GetProduct(t)
    \/ \E t \in Threads : SetField(t)
    \/ \E t \in Threads : CallUpdateProduct(t)
    \/ \E t \in Threads : BuildRows(t)
    \/ \E t \in Threads : OpenCsv(t)
    \/ \E t \in Threads : WriteCsv(t)
    \/ \E t \in Threads : ReadCsv(t)
    \/ \E t \in Threads : AssignProducts(t)
    \/ \E t \in Threads : AssignIndex(t)

SpecRace == InitRace /\ [][NextRace]_vars

\* the thread's change is what get_product_by_id shows for its product
ChangeInStore(t) ==
    /\ products_by_id[Thread(t).pid] # 0
    /\ FieldOf(objs[products_by_id[Thread(t).pid]], Thread(t).op)
           = Some(Strip(Thread(t).arg))

\* the thread's change is in the rows of the CSV file
ChangeInCsv(t) ==
    /\ LoadFromCsv(csv).ok
    /\ FieldOf(ProductIn(LoadFromCsv(csv).store, Thread(t).pid), Thread(t).op)
           = Some(Strip(Thread(t).arg))

\* C11: nothing in the data layer makes an update call wait for the other
\* or fail because of it: a call that has not returned can always take its
\* next step, whatever the other call is doing, and a call whose own
\* read_csv succeeded returns success whether or not the store it leaves
\* holds the other call's change.  (The interleaving itself, a reload that
\* replaces the store with a snapshot lacking the other call's change while
\* that call has returned success, is C11_Witness.)
C11_NoLock ==
    conc.pc = "threads" =>
        \A t \in Threads :
            /\ Thread(t).pc # "done" => ENABLED ThreadStep(t)
            /\ Thread(t).pc = "done" /\ Thread(t).df # TruncatedCsv
                   => Thread(t).ret.result = "success"

\* Both calls returned success; call 1's reload was the last to replace the
\* store and its snapshot lacks the change of call 2, which the CSV holds.
C11_Witness ==
    /\ conc.pc = "threads"
    /\ \A t \in Threads : Thread(t).pc = "done" /\ Thread(t).ret.result = "success"
    /\ ChangeInStore(1)
    /\ ~ChangeInStore(2)
    /\ ChangeInCsv(2)

-----------------------------------------------------------------------------
(* SpecTimeout: one AgentService invocation with a timeout_seconds of the   *)
(* caller's choice, and a clock that advances while the stream is open.     *)

Timeouts == {0, MaxElapsed}

\* time passes while the caller waits for the next event
Tick ==
    /\ run.pc = "streaming"
    /\ run.elapsed < MaxElapsed
    /\ run' = [run EXCEPT !.elapsed = @ + 1]
    /\ UNCHANGED <<cache, files, objs, products, products_by_id, csv, last, ncalls, conc>>

NextTimeout ==
    \/ \E pid \in ProductIds, timeout_seconds \in Timeouts :
           run_competitor_report(pid, timeout_seconds)
    \/ \E pid \in ProductIds, timeout_seconds \in Timeouts :
           run_recommendations(pid, timeout_seconds)
    \/ \E pid \in ProductIds, timeout_seconds \in Timeouts :
           run_final_agent(pid, timeout_seconds)
    \/ \E e \in Events : StreamEvent(e)
    \/ NextSubAgent
    \/ Tick
    \/ StreamRaise
    \/ StreamEnd

SpecTimeout == InitAgent /\ [][NextTimeout]_vars

\* the ways an invocation can end, given what it had at its start and the
\* events it collected: none of them takes timeout_seconds or the clock
RunOutcomes(pre, product_id, events) ==
    RunRaised(pre.cache, pre.files, product_id, events)
        \cup RunFinished(pre.cache, pre.files, product_id, events)

-----------------------------------------------------------------------------
(* Further claims about the tools, checked under SpecTools.                 *)

ProductTools == UpdateTools \cup {"lookup_product", "get_product_details",
                                  "get_product_info"}
ReportTools == {"recommendations.get_competitor_report",
                "summarize.get_competitor_report"}
RecommendationsTools == {"update.get_product_recommendations",
                         "summarize.get_product_recommendations"}

\* nothing is held for the id: no cache entry and no file
NothingCached(svc, pid) ==
    pid \notin DOMAIN cache[svc] \/ (IsNone(cache[svc][pid]) /\ IsNone(files[svc][pid]))

\* the call that has just completed (last') asked for something that did
\* not exist when it was made
NotFoundCall ==
    \/ last'.op \in ProductTools /\ products_by_id[last'.pid] = 0
    \/ last'.op \in ReportTools /\ NothingCached("competitor_report_service", last'.pid)
    \/ last'.op \in RecommendationsTools
           /\ NothingCached("product_recommendation_service", last'.pid)

\* a structured error or an empty result
NotFoundResult(ret) ==
    \/ "error" \in DOMAIN ret
    \/ "status" \in DOMAIN ret /\ ret.status = "info" /\ ret.report = <<>>

\* C13: a lookup or update tool called with a product_id for which no
\* product, report or recommendations exists returns a structured error or
\* empty result, does not raise, and leaves the product store, the CSV file
\* and the caches unchanged.
C13_NotFound ==
    [][(last' # last /\ NotFoundCall)
          => /\ NotFoundResult(last'.ret)
             /\ last'.raised = ""
             /\ UNCHANGED <<objs, products, products_by_id, csv, cache, files>>]_vars

\* An update tool was refused for an id that is not in the store.
C13_Witness ==
    /\ last.op \in UpdateTools
    /\ last.pid = MissingId
    /\ last.ret = Failure("Product not found")
    /\ csv = last.pre.csv
    /\ ncalls = MaxCalls

-----------------------------------------------------------------------------
(* SpecFlow: the two callers that chain the report agent and the            *)
(* recommendations agent for one product: the generate endpoint             *)
(* (views.generate_competitor_report_view) and the generate_recommendations *)
(* management command.  A caller is a process in `conc`; the agent          *)
(* invocation it is waiting for is `run`, driven by the stream actions of   *)
(* SpecAgent.  `runs` logs the invocations that have ended, taken from the  *)
(* call record the invocation left.                                         *)

\* timeout_seconds=300 in the view, --timeout default=300 in the command
DefaultTimeout == 300

ReportService == "competitor_report_service"
RecommendationService == "product_recommendation_service"

\* cache directories in which B0TEST001 has a report but no recommendations
\* and B0TEST002 has neither
ReportOnlyFiles ==
    [s \in Services |->
        IF s = ReportService THEN [EmptyDir EXCEPT !["B0TEST001"] = Some(<<"a">>)]
        ELSE EmptyDir]

Caller(pc, step, product_id, force_regeneration) ==
    [pc |-> pc, step |-> step, product_id |-> product_id,
     force_regeneration |-> force_regeneration,
     had_report |-> None, had_recommendations |-> None,
     report |-> None, recommendations |-> None,
     report_generated |-> FALSE, recommendations_generated |-> FALSE,
     runs |-> <<>>, response |-> <<>>]

\* the invocation that has just ended, as the caller sees it
EndedRun == [op |-> last.op, ret |-> last.ret, raised |-> last.raised,
             session_id |-> run.session_id, sessions |-> run.sessions]

RunEnded(op) == run.pc \in {"returned", "raised"} /\ run.op = op

Ran(op) == \E i \in 1 .. Len(conc.runs) : conc.runs[i].op = op

\* views.py 56-93: parse force_regeneration, 404 for an unknown product,
\* read both caches unless regeneration is forced
generate_competitor_report_view(product_id, force_regeneration) ==
    /\ conc.pc = "idle"
    /\ run.pc = "idle"
    /\ IF GetProductById(CurrentStore, product_id) = 0
       THEN /\ conc' = [Caller("view", "responded", product_id, force_regeneration)
                            EXCEPT !.response = [status |-> "error", code |-> 404]]
            /\ UNCHANGED cache
       ELSE IF force_regeneration
       THEN /\ conc' = Caller("view", "report", product_id, force_regeneration)
            /\ UNCHANGED cache
       ELSE \E o1 \in GetOutcomes(cache[ReportService], files[ReportService], product_id),
               o2 \in GetOutcomes(cache[RecommendationService],
                                  files[RecommendationService], product_id) :
                /\ cache' = [cache EXCEPT ![ReportService] = o1.cache,
                                          ![RecommendationService] = o2.cache]
                /\ conc' = [Caller("view", "report", product_id, force_regeneration)
                                EXCEPT !.had_report = o1.ret, !.report = o1.ret,
                                       !.had_recommendations = o2.ret,
                                       !.recommendations = o2.ret]
    /\ UNCHANGED <<files, objs, products, products_by_id, csv, last, ncalls, run>>

\* views.py 94 without the test of the cached report: the report agent is
\* run in every request
ViewReport_IgnoreCache ==
    /\ conc.pc = "view" /\ conc.step = "report"
    /\ run_competitor_report(conc.product_id, DefaultTimeout)

\* views.py 94: if force_regeneration or not report
ViewReport ==
    /\ conc.pc = "view" /\ conc.step = "report"
    /\ \/ /\ conc.force_regeneration \/ ~Truthy(conc.report)
          /\ run_competitor_report(conc.product_id, DefaultTimeout)
       \/ /\ ~(conc.force_regeneration \/ ~Truthy(conc.report))
          /\ conc' = [conc EXCEPT !.step = "recommendations"]
          /\ UNCHANGED <<cache, files, objs, products, products_by_id, csv, last,
                         ncalls, run>>

\* the exception of an agent invocation reaches the view's except branch
ViewFailed == [status |-> "error", code |-> 500]

\* views.py 95-103: the invocation returned or raised
ViewReportDone ==
    /\ conc.pc = "view" /\ conc.step = "report"
    /\ RunEnded("run_competitor_report")
    /\ conc' = IF run.pc = "returned"
               THEN [conc EXCEPT !.report = last.ret, !.report_generated = TRUE,
                                 !.runs = Append(@, EndedRun),
                                 !.step = "recommendations"]
               ELSE [conc EXCEPT !.runs = Append(@, EndedRun),
                                 !.response = ViewFailed, !.step = "responded"]
    /\ run' = NoRun
    /\ UNCHANGED <<cache, files, objs, products, products_by_id, csv, last, ncalls>>

\* views.py 106: if force_regeneration or not recommendations
ViewRecommendations ==
    /\ conc.pc = "view" /\ conc.step = "recommendations"
    /\ \/ /\ conc.force_regeneration \/ ~Truthy(conc.recommendations)
          /\ run_recommendations(conc.product_id, DefaultTimeout)
       \/ /\ ~(conc.force_regeneration \/ ~Truthy(conc.recommendations))
          /\ run.pc = "idle"
          /\ conc' = [conc EXCEPT !.step = "respond"]
          /\ UNCHANGED <<cache, files, objs, products, products_by_id, csv, last,
                         ncalls, run>>

\* views.py 107-115
ViewRecommendationsDone ==
    /\ conc.pc = "view" /\ conc.step = "recommendations"
    /\ RunEnded("run_recommendations")
    /\ conc' = IF run.pc = "returned"
               THEN [conc EXCEPT !.recommendations = last.ret,
                                 !.recommendations_generated = TRUE,
                                 !.runs = Append(@, EndedRun),
                                 !.step = "respond"]
               ELSE [conc EXCEPT !.runs = Append(@, EndedRun),
                                 !.response = ViewFailed, !.step = "responded"]
    /\ run' = NoRun
    /\ UNCHANGED <<cache, files, objs, products, products_by_id, csv, last, ncalls>>

\* views.py 117-136: the success response
ViewRespond ==
    /\ conc.pc = "view" /\ conc.step = "respond"
    /\ conc' = [conc EXCEPT
                  !.step = "responded",
                  !.response =
                      [status |-> "success", code |-> 200,
                       message |-> IF conc.report_generated /\ conc.recommendations_generated
                                   THEN "Competitor report and recommendations generated successfully"
                                   ELSE IF conc.report_generated
                                   THEN "Competitor report generated successfully, using cached recommendations"
                                   ELSE IF conc.recommendations_generated
                                   THEN "Recommendations generated successfully, using cached competitor report"
                                   ELSE "Using cached competitor report and recommendations",
                       report |-> conc.report,
                       recommendations |-> conc.recommendations,
                       cached |-> [report |-> ~conc.report_generated,
                                   recommendations |-> ~conc.recommendations_generated]]]
    /\ UNCHANGED <<cache, files, objs, products, products_by_id, csv, last, ncalls, run>>

\* Command.handle without the generation of a missing report: the command
\* goes to the recommendations agent whatever has_report said
handle_NoReportFirst(product_id) ==
    /\ conc.pc = "idle"
    /\ run.pc = "idle"
    /\ IF GetProductById(CurrentStore, product_id) = 0
       THEN conc' = Caller("command", "returned", product_id, FALSE)
       ELSE \E o \in HasOutcomes(cache[ReportService], files[ReportService], product_id) :
                conc' = [Caller("command", "recommendations", product_id, FALSE)
                             EXCEPT !.had_report = Some(o.ret)]
    /\ UNCHANGED <<cache, files, objs, products, products_by_id, csv, last, ncalls, run>>

\* Command.handle 54-65: unknown product, then has_report
handle(product_id) ==
    /\ conc.pc = "idle"
    /\ run.pc = "idle"
    /\ IF GetProductById(CurrentStore, product_id) = 0
       THEN conc' = Caller("command", "returned", product_id, FALSE)
       ELSE \E o \in HasOutcomes(cache[ReportService], files[ReportService], product_id) :
                conc' = [Caller("command", IF o.ret THEN "recommendations" ELSE "report",
                                product_id, FALSE)
                             EXCEPT !.had_report = Some(o.ret)]
    /\ UNCHANGED <<cache, files, objs, products, products_by_id, csv, last, ncalls, run>>

\* Command.handle 66-74
CommandReport ==
    /\ conc.pc = "command" /\ conc.step = "report"
    /\ run_competitor_report(conc.product_id, DefaultTimeout)

\* Command.handle 75-80: the exception of the report invocation is caught
\* and the command continues
CommandReportDone ==
    /\ conc.pc = "command" /\ conc.step = "report"
    /\ RunEnded("run_competitor_report")
    /\ conc' = [conc EXCEPT !.runs = Append(@, EndedRun),
                            !.report_generated = (run.pc = "returned"),
                            !.step = "recommendations"]
    /\ run' = NoRun
    /\ UNCHANGED <<cache, files, objs, products, products_by_id, csv, last, ncalls>>

\* Command.handle 87-94
CommandRecommendations ==
    /\ conc.pc = "command" /\ conc.step = "recommendations"
    /\ run_recommendations(conc.product_id, DefaultTimeout)

\* Command.handle 96-122: write the output file; an exception is re-raised
CommandRecommendationsDone ==
    /\ conc.pc = "command" /\ conc.step = "recommendations"
    /\ RunEnded("run_recommendations")
    /\ \E written \in BOOLEAN :
           conc' = [conc EXCEPT !.runs = Append(@, EndedRun),
                                !.recommendations = last.ret,
                                !.recommendations_generated = (run.pc = "returned"),
                                !.step = IF run.pc = "returned" /\ written
                                         THEN "returned" ELSE "raised"]
    /\ UNCHANGED <<cache, files, objs, products, products_by_id, csv, last, ncalls, run>>

InitFlow ==
    /\ cache = [s \in Services |-> EmptyCache]
    /\ files \in {SeededFiles, ReportOnlyFiles}
    /\ last = NoCall
    /\ run = NoRun
    /\ conc = NoConc
    /\ InitProducts

NextFlow ==
    \/ \E product_id \in ToolIds, force_regeneration \in BOOLEAN :
           generate_competitor_report_view(product_id, force_regeneration)
    \/ ViewReport
    \/ ViewReportDone
    \/ ViewRecommendations
    \/ ViewRecommendationsDone
    \/ ViewRespond
    \/ \E product_id \in ToolIds : handle(product_id)
    \/ CommandReport
    \/ CommandReportDone
    \/ CommandRecommendations
    \/ CommandRecommendationsDone
    \/ \E e \in Events : StreamEvent(e)
    \/ CompetitorReportAgentTool
    \/ RecommendationsAgentTool
    \/ StreamRaise
    \/ StreamEnd

SpecFlow == InitFlow /\ [][NextFlow]_vars

Started(op) == run.pc # "idle" /\ run.op = op

ViewSucceeded ==
    conc.pc = "view" /\ conc.step = "responded" /\ conc.response.code = 200

\* C14: in the generate endpoint, with force_regeneration false an artifact
\* its cache returned is served without running its agent; with
\* force_regeneration true the report agent is run whatever the caches hold
\* and a successful response has run both agents; in the response
\* cached.report and cached.recommendations are true exactly for the
\* artifacts whose agent did not run in the request.
C14_Generate ==
    conc.pc = "view" =>
        /\ (~conc.force_regeneration /\ Truthy(conc.had_report))
               => /\ ~Ran("run_competitor_report")
                  /\ ~Started("run_competitor_report")
                  /\ conc.report = conc.had_report
        /\ (~conc.force_regeneration /\ Truthy(conc.had_recommendations))
               => /\ ~Ran("run_recommendations")
                  /\ ~Started("run_recommendations")
                  /\ conc.recommendations = conc.had_recommendations
        /\ (conc.force_regeneration /\ conc.step \notin {"report", "responded"})
               => Ran("run_competitor_report")
        /\ ViewSucceeded
               => /\ conc.response.cached.report = ~Ran("run_competitor_report")
                  /\ conc.response.cached.recommendations = ~Ran("run_recommendations")
                  /\ conc.response.report = conc.report
                  /\ conc.response.recommendations = conc.recommendations
                  /\ conc.force_regeneration
                         => Ran("run_competitor_report") /\ Ran("run_recommendations")

\* A request without force_regeneration found the report in its cache and
\* no recommendations: only the recommendations agent ran.
C14_Witness ==
    /\ ViewSucceeded
    /\ ~conc.force_regeneration
    /\ conc.response.report = Some(<<"a">>)
    /\ conc.response.cached = [report |-> TRUE, recommendations |-> FALSE]
    /\ Ran("run_recommendations") /\ ~Ran("run_competitor_report")

\* the recommendations agent of the command has been built
CommandRecommendationsStarted ==
    conc.pc = "command" /\ Started("run_recommendations")

\* the recommendations agent was built with this report in its session state
BuiltWith(report) ==
    /\ "competitor_report" \in DOMAIN run.session
    /\ run.session.competitor_report = report

\* the report invocation of the command returned, its report is in the
\* cache and on disk, and the recommendations agent was built with it
ReportSavedAndUsed ==
    /\ conc.runs[1].raised = ""
    /\ cache[ReportService][conc.product_id] = conc.runs[1].ret
    /\ files[ReportService][conc.product_id] = conc.runs[1].ret
    /\ BuiltWith(Val(conc.runs[1].ret))

\* C15 as stated: when the command is run for a product without a report,
\* the report agent runs to completion and its report is saved before the
\* recommendations agent starts, which is built with that report; when a
\* report exists the report agent is not run.
C15_ReportFirst ==
    CommandRecommendationsStarted =>
        IF conc.had_report = Some(FALSE)
        THEN /\ conc.runs # <<>>
             /\ conc.runs[1].op = "run_competitor_report"
             /\ ReportSavedAndUsed
        ELSE ~Ran("run_competitor_report")

\* C15 (amended): when the command is run for a product without a report,
\* the invocation of the report agent has ended before the recommendations
\* agent starts; if it returned, its report is saved and the
\* recommendations agent is built with it; if it raised, the command goes on
\* and the recommendations agent is built with a report only if the failed
\* invocation left one in the memory map.  When a report exists the report
\* agent is not run.
C15_ReportFirstUnlessFailed ==
    CommandRecommendationsStarted =>
        IF conc.had_report = Some(FALSE)
        THEN /\ conc.runs # <<>>
             /\ conc.runs[1].op = "run_competitor_report"
             /\ IF conc.runs[1].raised = ""
                THEN ReportSavedAndUsed
                ELSE IF Truthy(cache[ReportService][conc.product_id])
                THEN /\ conc.runs[1].raised = "IOError"
                     /\ BuiltWith(Val(cache[ReportService][conc.product_id]))
                ELSE "competitor_report" \notin DOMAIN run.session
        ELSE ~Ran("run_competitor_report")

\* The command generated the missing report of B0TEST002 and the
\* recommendations agent is streaming with that report in its state.
C15_Witness ==
    /\ CommandRecommendationsStarted
    /\ run.pc = "streaming"
    /\ conc.had_report = Some(FALSE)
    /\ conc.runs # <<>>
    /\ conc.runs[1].raised = ""
    /\ BuiltWith(<<"a">>)

-----------------------------------------------------------------------------
(* Further claims about the cache services, checked under SpecCache.        *)

\* the call that has just completed is op(pid) on svc
CacheCall(op, svc, pid) ==
    last'.op = op /\ last'.svc = svc /\ last'.pid = pid

InMap(svc, pid) == ~IsNone(cache[svc][pid])
FileExists(svc, pid) == ~IsNone(files[svc][pid])

\* served from the memory map, the file is not opened
ServedFromMemory(svc, pid) ==
    /\ last'.ret = cache[svc][pid]
    /\ last'.io = ""
    /\ UNCHANGED <<cache, files>>

GetNotFound ==
    /\ last'.ret = None
    /\ last'.raised = ""
    /\ UNCHANGED <<cache, files>>

\* What tells one get from the previous call: a get step that leaves all of
\* this unchanged is the previous get made again in the same state, with
\* the same result.
GetObserved == <<cache, files, last.op, last.svc, last.pid, last.io>>

\* C16 as stated, read on the state a get leaves (a get never changes the
\* file): either the file was not consulted and the value returned is the
\* one the map holds, not-found only if there is no file, or the file was
\* consulted and get returned the file's content and the map now holds it.
C16_Get ==
    (last.op = "get" /\ last.pid \in ProductIds)
        => \/ /\ last.io = ""
              /\ last.ret = cache[last.svc][last.pid]
              /\ IsNone(last.ret) => IsNone(files[last.svc][last.pid])
           \/ /\ last.io # ""
              /\ last.ret = files[last.svc][last.pid]
              /\ cache[last.svc][last.pid] = last.ret

\* C16 (amended): get(P) returns the memory-map value whenever P is in the
\* map, without consulting the file; when P is not in the map and the file
\* exists, either the read succeeds and get returns the text read (the
\* file's content with "\r\n" and "\r" turned into "\n") and stores it in
\* the map, or the read fails and get returns not-found and stores nothing;
\* when neither exists it returns not-found.
C16_GetReadsText ==
    [][\A svc \in Services, pid \in ProductIds :
         CacheCall("get", svc, pid) =>
             IF InMap(svc, pid) THEN ServedFromMemory(svc, pid)
             ELSE IF FileExists(svc, pid)
             THEN \/ /\ last'.io = "ok"
                     /\ last'.ret = Some(ReadText(Val(files[svc][pid])))
                     /\ cache' = [cache EXCEPT ![svc][pid] = last'.ret]
                     /\ files' = files
                  \/ /\ last'.io = "read_failed"
                     /\ GetNotFound
             ELSE GetNotFound]_GetObserved

\* A get read the file of a key that was not in the map, returned its text
\* with the newline translated, and the map now holds that text.
C16_Witness ==
    /\ last.op = "get"
    /\ last.io = "ok"
    /\ files[last.svc][last.pid] = Some(<<"\r">>)
    /\ last.ret = Some(<<"\n">>)
    /\ cache[last.svc][last.pid] = last.ret

\* C17: save(P, T) called with an empty product_id or an empty text raises
\* ValueError and leaves both the memory map and the disk unchanged: no
\* entry is added, no file is created or overwritten.
C17_SaveRejectsEmpty ==
    [][\A svc \in Services :
         (last'.op = "save" /\ last'.svc = svc
              /\ (last'.pid = EmptyId \/ last'.arg = <<>>))
            => /\ last'.raised = "ValueError"
               /\ last'.io = ""
               /\ UNCHANGED <<cache, files>>]_vars

\* A save of the empty text was refused for a key that is stored: its entry
\* and its file are still there.
C17_Witness ==
    /\ last.op = "save"
    /\ last.pid \in ProductIds
    /\ last.arg = <<>>
    /\ last.raised = "ValueError"
    /\ cache[last.svc][last.pid] = Some(<<"a">>)
    /\ files[last.svc][last.pid] = Some(<<"a">>)

-----------------------------------------------------------------------------
(* lookup_competitors, checked under SpecTools.                             *)

\* C18: lookup_competitors(P) for a product that has zero competitors
\* returns num_competitors 0, an empty competitors list and an
\* informational message, no error, and does not raise.
C18_NoCompetitors ==
    (last.op = "lookup_competitors"
         /\ GetCompetitorsForProduct(Competitors, last.pid) = <<>>)
        => /\ last.raised = ""
           /\ DOMAIN last.ret = {"source_product_id", "num_competitors",
                                 "competitors", "message"}
           /\ last.ret.source_product_id = last.pid
           /\ last.ret.num_competitors = 0
           /\ last.ret.competitors = <<>>
           /\ last.ret.message = "No competitors found for product {product_id}"

\* lookup_competitors was called for B0TEST002, a product of the store that
\* no competitor was generated from.
C18_Witness ==
    /\ last.op = "lookup_competitors"
    /\ last.pid = "B0TEST002"
    /\ GetProductById(CurrentStore, last.pid) # 0
    /\ last.ret.num_competitors = 0

-----------------------------------------------------------------------------
(* The sequential final agent, checked under SpecAgent.                     *)

\* update_product_agent tools / summarization_agent tools
UpdateAgentTools == UpdateTools \cup {"update.get_product_recommendations"}
SummarizationAgentTools == {"get_product_info", "summarize.get_competitor_report",
                            "summarize.get_product_recommendations"}

\* stages 1, 2, 3 are the update sub-agents, stage 4 is the summarizer
ToolsOfStage(stage) ==
    IF stage \in 1 .. 3 THEN UpdateAgentTools
    ELSE IF stage = 4 THEN SummarizationAgentTools
    ELSE {}

FinalAgentStreaming == run.pc = "streaming" /\ run.op = "run_final_agent"

\* C19: in every run of the final agent the sub-agents execute in the order
\* update #1, update #2, update #3, summarizer, one at a time: the run
\* starts with update #1, every step stays in the current sub-agent or
\* moves to the next one, a tool call is a call of the current sub-agent,
\* the move to the next sub-agent is possible whatever the last tool
\* returned, nothing follows the summarizer, and a run that returns has
\* reached the summarizer.
C19_FixedOrder ==
    [][/\ (run.pc = "idle" /\ run'.op = "run_final_agent") => run'.stage = 1
       /\ FinalAgentStreaming
              => /\ run.stage \in 1 .. 4
                 /\ run'.stage = run.stage \/ run'.stage = run.stage + 1
                 /\ run'.stage \in 1 .. 4
                 /\ ncalls' # ncalls => last'.op \in ToolsOfStage(run.stage)
                 /\ run.stage < 4 => ENABLED NextSubAgent
                 /\ run'.pc = "returned" => run.stage = 4]_vars

\* The summarizer is running after the last tool call, an update tool of
\* an earlier sub-agent, returned a failure.
C19_Witness ==
    /\ FinalAgentStreaming
    /\ run.stage = 4
    /\ last.op \in UpdateTools
    /\ last.ret.result = "failure"

\* an invocation whose event stream completed without raising
StreamCompleted == last.op \in AgentOps /\ last.io # "stream_raised"

\* C20 as stated: whenever the event stream of run_competitor_report,
\* run_recommendations or run_final_agent completes without raising, the
\* invocation saves the extracted final response to its cache under the
\* product_id and returns that text, so that an immediately following
\* get(product_id) returns the value the call returned.
C20_SavesAndReturns ==
    StreamCompleted
        => /\ last.raised = ""
           /\ last.ret = ExtractFinalResponse(last.arg)
           /\ cache[last.svc][last.pid] = last.ret
           /\ files[last.svc][last.pid] = last.ret
           /\ GetReturns(last.svc, last.pid) = {last.ret}

\* C20 (amended): whenever the event stream completes without raising and
\* the extracted final response is a non-empty text whose file is written,
\* the invocation saves it to its cache under the product_id and returns
\* it, and a following get(product_id) returns that value.  If the
\* extracted response is None or empty the invocation raises ValueError and
\* the cache is as it was; if the file cannot be written it raises IOError
\* and the memory map holds the text, which a following get returns.
C20_SavesAndReturnsIfSaved ==
    StreamCompleted
        => LET text == ExtractFinalResponse(last.arg)
           IN  IF ~Truthy(text)
               THEN /\ last.raised = "ValueError"
                    /\ IsNone(last.ret)
                    /\ cache[last.svc] = last.pre.cache
                    /\ files[last.svc] = last.pre.files
               ELSE IF last.io = "ok"
               THEN /\ last.raised = ""
                    /\ last.ret = text
                    /\ cache[last.svc][last.pid] = text
                    /\ files[last.svc][last.pid] = text
                    /\ GetReturns(last.svc, last.pid) = {last.ret}
               ELSE /\ last.io \in {"open_failed", "write_failed"}
                    /\ last.raised = "IOError"
                    /\ IsNone(last.ret)
                    /\ cache[last.svc][last.pid] = text
                    /\ GetReturns(last.svc, last.pid) = {text}

\* run_recommendations returned the final text and replaced the
\* recommendations that were on disk.
C20_Witness ==
    /\ last.op = "run_recommendations"
    /\ last.raised = ""
    /\ last.ret = Some(<<"a">>)
    /\ last.pre.files[last.pid] = Some(<<"\r">>)
    /\ cache[last.svc][last.pid] = last.ret
    /\ files[last.svc][last.pid] = last.ret

-----------------------------------------------------------------------------
(* SpecExtract: _extract_final_response applied to a buffer of events of    *)
(* every shape the function distinguishes.                                  *)

\* beside Events: a content without parts, a second text, an empty text and
\* an event whose content has two parts
EventShapes ==
    Events \cup {NoPartsEvent, TextEvent(<<"b">>), TextEvent(<<>>),
                 [content |-> Some([parts |-> << [text |-> Some(<<"b">>)],
                                                 [text |-> Some(<<"a">>)] >>])]}

\* events.append(event)
BufferEvent(e) ==
    /\ last.op = ""
    /\ Len(run.events) < MaxEvents
    /\ run' = [run EXCEPT !.events = Append(@, e)]
    /\ UNCHANGED <<cache, files, objs, products, products_by_id, csv, last, ncalls, conc>>

\* report = AgentService._extract_final_response(events)
Extract ==
    /\ last.op = ""
    /\ last' = [NoCall EXCEPT !.op = "_extract_final_response",
                              !.arg = run.events,
                              !.ret = ExtractFinalResponse(run.events)]
    /\ UNCHANGED <<cache, files, objs, products, products_by_id, csv, ncalls, run, conc>>

NextExtract ==
    \/ \E e \in EventShapes : BufferEvent(e)
    \/ Extract

SpecExtract == InitCache /\ [][NextExtract]_vars

HasParts(event) == ~IsNone(event.content) /\ Val(event.content).parts # <<>>

\* C21: the final response of a run is computed from the buffered events:
\* with no events it is 'No response generated'; otherwise it is the text
\* of the first part of the last event's content; when the last event has
\* no content or no parts it is the string form of that event.  The events
\* before the last one do not influence the result.
C21_FinalResponse ==
    last.op = "_extract_final_response"
        => IF last.arg = <<>>
           THEN last.ret = Some(<<"No response generated">>)
           ELSE LET final_event == last.arg[Len(last.arg)]
                IN  /\ HasParts(final_event)
                           => last.ret = Val(final_event.content).parts[1].text
                    /\ ~HasParts(final_event) => last.ret = Some(Str(final_event))
                    /\ last.ret = ExtractFinalResponse(<<final_event>>)

\* A text event was followed by an event whose first part has no text: the
\* response is that part's text, None, and not the earlier text.
C21_Witness ==
    /\ last.op = "_extract_final_response"
    /\ Len(last.arg) = 2
    /\ last.arg[1] = TextEvent(<<"a">>)
    /\ last.arg[2] = FunctionCallEvent
    /\ last.ret = None

-----------------------------------------------------------------------------
(* The summarizer's frame, checked under SpecAgent.                         *)

\* the texts a cache service holds are the same after the step: no file
\* changed, and a memory entry is what it was or was filled with the text
\* of its file
SameTexts(svc) ==
    /\ files'[svc] = files[svc]
    /\ \A p \in ProductIds :
           \/ cache'[svc][p] = cache[svc][p]
           \/ /\ IsNone(cache[svc][p])
              /\ ~IsNone(files[svc][p])
              /\ cache'[svc][p] = Some(ReadText(Val(files[svc][p])))

\* C22: while the summarization sub-agent runs, no step (a call of
\* get_product_info, get_competitor_report or get_product_recommendations
\* included) changes the product store, the products CSV or the stored
\* report and recommendations texts.
C22_SummarizerReadsOnly ==
    [][(run.pc = "streaming" /\ run.op = "run_final_agent" /\ run.stage = 4)
          => /\ UNCHANGED <<objs, products, products_by_id, csv>>
             /\ SameTexts(ReportService)
             /\ SameTexts(RecommendationService)
             /\ ncalls' # ncalls => last'.op \in SummarizationAgentTools]_vars

\* The summarizer read the report after an update sub-agent had changed the
\* products file.
C22_Witness ==
    /\ run.pc = "streaming" /\ run.op = "run_final_agent" /\ run.stage = 4
    /\ last.op = "summarize.get_competitor_report"
    /\ last.ret.result = "success"
    /\ cache[ReportService][last.pid] = Some(<<"a">>)
    /\ ncalls = MaxCalls
    /\ csv \notin {ProductsFileA, ProductsFileB}

-----------------------------------------------------------------------------
(* Sessions of the invocations, checked under SpecFlow (two invocations by  *)
(* one caller).                                                             *)

\* C23: each invocation of run_competitor_report, run_recommendations or
\* run_final_agent creates exactly one session, under a new id in a new
\* in-memory session store, submits exactly one user message and opens the
\* event stream once; the response is extracted from the events buffered
\* when the stream ended; the store of an invocation holds no session of
\* another invocation and its buffer starts empty.
C23_OneSessionPerRun ==
    /\ run.pc # "idle"
           => /\ run.sessions = {run.session_id}
              /\ run.messages = 1
              /\ run.started = 1
    /\ run.pc = "returned"
           => /\ last.op = run.op
              /\ last.ret = ExtractFinalResponse(last.arg)
    /\ "runs" \in DOMAIN conc
           => /\ \A i \in 1 .. Len(conc.runs) :
                     /\ conc.runs[i].sessions = {conc.runs[i].session_id}
                     /\ conc.runs[i].session_id # run.session_id
                            => conc.runs[i].session_id \notin run.sessions
              /\ \A i, j \in 1 .. Len(conc.runs) :
                     i # j => conc.runs[i].session_id # conc.runs[j].session_id

\* The second invocation of a request is receiving events in its own
\* session after the first one has ended.
C23_Witness ==
    /\ conc.pc = "view"
    /\ Len(conc.runs) = 1
    /\ run.pc = "streaming"
    /\ run.op = "run_recommendations"
    /\ run.events # <<>>
    /\ run.sessions = {2}
    /\ conc.runs[1].sessions = {1}

-----------------------------------------------------------------------------
(* SpecMap: one cache instance next to the plain map it is said to behave   *)
(* like.  The calls are made one at a time from an empty directory and      *)
(* every file system call succeeds; `conc.map` is the plain map: a save     *)
(* that returns sets the key, a delete removes it, nothing else touches it. *)

\* the outcomes in which no file system call failed
NoFailure(outcomes) == {o \in outcomes : o.io \in {"", "ok"}}

MapStep(op, pid, arg, o, map) ==
    /\ cache' = [cache EXCEPT ![ReportService] = o.cache]
    /\ files' = [files EXCEPT ![ReportService] = o.files]
    /\ last' = Call(op, ReportService, pid, arg, o)
    /\ conc' = [conc EXCEPT !.map = map]
    /\ UNCHANGED <<objs, products, products_by_id, csv, ncalls, run>>

MapSave(pid, text) ==
    \E o \in NoFailure(SaveOutcomes(cache[ReportService], files[ReportService], pid, text)) :
        MapStep("save", pid, text, o,
                IF o.raised = "" THEN [conc.map EXCEPT ![pid] = Some(text)] ELSE conc.map)

MapGet(pid) ==
    \E o \in NoFailure(GetOutcomes(cache[ReportService], files[ReportService], pid)) :
        MapStep("get", pid, <<>>, o, conc.map)

MapHas(pid) ==
    \E o \in NoFailure(HasOutcomes(cache[ReportService], files[ReportService], pid)) :
        MapStep("has", pid, <<>>, o, conc.map)

MapDelete(pid) ==
    \E o \in NoFailure(DeleteOutcomes(cache[ReportService], files[ReportService], pid)) :
        MapStep("delete", pid, <<>>, o,
                IF pid \in ProductIds THEN [conc.map EXCEPT ![pid] = None] ELSE conc.map)

MapClearCache ==
    \E o \in NoFailure(ClearCacheOutcomes(cache[ReportService], files[ReportService])) :
        MapStep("clear_cache", EmptyId, <<>>, o, conc.map)

InitMap ==
    /\ cache = [s \in Services |-> EmptyCache]
    /\ files = [s \in Services |-> EmptyDir]
    /\ last = NoCall
    /\ run = NoRun
    /\ conc = [pc |-> "map", map |-> [p \in ProductIds |-> None]]
    /\ NoProducts

NextMap ==
    \/ \E pid \in IdArgs, text \in Texts : MapSave(pid, text)
    \/ \E pid \in IdArgs : MapGet(pid)
    \/ \E pid \in IdArgs : MapHas(pid)
    \/ \E pid \in IdArgs : MapDelete(pid)
    \/ MapClearCache

SpecMap == InitMap /\ [][NextMap]_vars

\* what get(P) returns now when the read does not fail
GetNow(pid) ==
    {o.ret : o \in NoFailure(GetOutcomes(cache[ReportService], files[ReportService], pid))}

\* C24 as stated: with calls made one at a time from an empty directory and
\* no I/O failure the cache behaves like a plain map in which the newest
\* write wins: get(P) returns the text of the most recent save(P) not
\* followed by delete(P), not-found otherwise, and clear_cache does not
\* change what get returns.
C24_NewestWriteWins ==
    /\ \A pid \in ProductIds : GetNow(pid) = {conc.map[pid]}
    /\ (last.op = "get" /\ last.pid \in ProductIds) => last.ret = conc.map[last.pid]

SameAsRead(found, saved) ==
    IF IsNone(saved) THEN IsNone(found)
    ELSE ~IsNone(found) /\ ReadText(Val(found)) = ReadText(Val(saved))

\* What does hold under the same conditions: get(P) returns not-found when
\* the plain map has no entry for P, and otherwise the text of the most
\* recent save(P) up to newlines: that very text while the memory map holds
\* it, and after clear_cache the text as a text-mode read of the file gives
\* it, in which "\r\n" and "\r" have become "\n".
NewestWriteWinsUpToNewlines ==
    /\ \A pid \in ProductIds :
           /\ \A found \in GetNow(pid) : SameAsRead(found, conc.map[pid])
           /\ ~IsNone(cache[ReportService][pid])
                  => cache[ReportService][pid] \in
                         {conc.map[pid], Some(ReadText(Val(conc.map[pid])))}
    /\ (last.op = "get" /\ last.pid \in ProductIds)
           => SameAsRead(last.ret, conc.map[last.pid])
    /\ (last.op = "save" /\ last.raised = "")
           => GetNow(last.pid) = {Some(last.arg)}

-----------------------------------------------------------------------------
(* A save whose disk write fails, checked under SpecCache.                  *)

\* the disk write of the save that has just completed failed
WriteFailed == last'.op = "save" /\ last'.io \in {"open_failed", "write_failed"}

\* C25: if the disk write inside save(P, T) fails, save raises IOError and
\* the cache is left as it was before the call: the memory map has no new
\* or changed entry for P and a following get(P) returns what it returned
\* before the failed save.  (A step that changes neither the memory maps
\* nor the directories satisfies this.)
C25_FailedSaveLeavesCache ==
    [][WriteFailed
          => /\ last'.raised = "IOError"
             /\ cache'[last'.svc][last'.pid] = cache[last'.svc][last'.pid]
             /\ {o.ret : o \in GetOutcomes(cache'[last'.svc], files'[last'.svc], last'.pid)}
                  = {o.ret : o \in GetOutcomes(cache[last'.svc], files[last'.svc], last'.pid)}]_<<cache, files>>

-----------------------------------------------------------------------------
(* has against get, checked in every state of SpecCache.                    *)

\* what has(P) answers in the current state
HasNow(svc, pid) == {o.ret : o \in HasOutcomes(cache[svc], files[svc], pid)}

\* the outcomes of a get(P) made in the current state
GetNowOutcomes(svc, pid) == GetOutcomes(cache[svc], files[svc], pid)

\* C26 as stated: in every reachable state has(P) is true exactly when
\* get(P) would return a text: has never reports an artifact that get cannot
\* return, and get never returns an artifact for which has is false.
C26_HasIffGet ==
    \A svc \in Services, pid \in IdArgs :
        \A o \in GetNowOutcomes(svc, pid) : HasNow(svc, pid) = {~IsNone(o.ret)}

\* C26: has(P) is true exactly when get(P) returns a text or fails to read
\* the file of P: get never returns an artifact for which has is false, and
\* when has is true get returns not-found only because its read failed.
C26_HasIffGetOrReadFails ==
    \A svc \in Services, pid \in IdArgs :
        \A o \in GetNowOutcomes(svc, pid) :
            HasNow(svc, pid) = {~IsNone(o.ret) \/ o.io = "read_failed"}

\* a get has just failed to read a file that has still reports
C26_Witness ==
    /\ last.op = "get"
    /\ last.io = "read_failed"
    /\ IsNone(last.ret)
    /\ HasNow(last.svc, last.pid) = {TRUE}
    /\ \E svc \in Services, pid \in ProductIds :
           HasNow(svc, pid) = {FALSE} /\ GetReturns(svc, pid) = {None}

-----------------------------------------------------------------------------
(* The frame of an update tool call, checked under SpecTools.               *)

\* the field an update tool assigns
TargetField(op) ==
    CASE op = "update_product_title" -> "title"
      [] op = "update_product_description" -> "description_filled"
      [] op = "update_product_category" -> "retailer_category_node"
      [] op = "update_product_brand" -> "retailer_brand_name"
      [] OTHER -> "bullet_points"

ProductFields ==
    {"product_id", "title", "universe", "image_url", "bullet_points",
     "min_rank_search", "avg_rank_search", "min_rank_category",
     "avg_rank_category", "retailer_category_node", "retailer_brand_name",
     "description_filled", "source_product_id"}

\* the (product, field) pairs an update call on last.pid must leave alone
Framed ==
    {pf \in ProductIds \X ProductFields :
        /\ last.pre.store.products_by_id[pf[1]] # 0
        /\ pf[1] # last.pid \/ pf[2] # TargetField(last.op)}

\* C27 as stated: a successful update tool call on product P changes only
\* the targeted field of P: after its save-and-reload round trip through
\* the CSV every other field of P and every field of every other product in
\* the store has the same value as before the call.
C27_OnlyTargetChanges ==
    (IsUpdateCall /\ last.ret.result = "success")
        => \A pf \in Framed :
               ProductIn(CurrentStore, pf[1])[pf[2]]
                   = ProductIn(last.pre.store, pf[1])[pf[2]]

\* the value a field of a stored product has after save_to_csv and
\* load_from_csv
RoundTrip(field, v) ==
    IF field \in {"image_url", "bullet_points"} THEN ListCell(v)
    ELSE IF field \in {"universe", "retailer_category_node",
                       "retailer_brand_name", "description_filled",
                       "source_product_id"}
    THEN ReadStrCell(StrCell(v))
    ELSE v

\* What does hold: every field outside the target comes back as the CSV
\* round trip of its value before the call (an empty list and an optional
\* string that reads as NaN come back as None).
OnlyTargetChangesUpToRoundTrip ==
    (IsUpdateCall /\ last.ret.result = "success")
        => \A pf \in Framed :
               ProductIn(CurrentStore, pf[1])[pf[2]]
                   = RoundTrip(pf[2], ProductIn(last.pre.store, pf[1])[pf[2]])

-----------------------------------------------------------------------------
(* ProductService called directly: load_from_csv, update_product and        *)
(* save_and_reload on the list and the by-id index.                         *)

\* A products file in which two rows carry the same product_id.
ProductsFileDup ==
    CsvFile(<<Row(Product("B0TEST001", <<"N">>, None, None, None, None, None)),
              Row(Product("B0TEST002", <<"A">>, None, None, None, None, None)),
              Row(Product("B0TEST001", <<"A">>, None, None, None, None, None))>>)

\* The files load_from_csv is pointed at; the last one does not parse.
StoreFiles == {ProductsFileA, ProductsFileB, ProductsFileDup, TruncatedCsv}

\* The Product objects a caller hands to update_product that it did not
\* take from the service.
NewProducts ==
    {Product(id, <<"N", "A">>, None, None, None, None, None) : id \in ToolIds}

\* References to Product objects: the rows of the largest file and one new
\* object per call.
Refs == 1 .. (Len(ProductsFileDup.rows) + MaxCalls)

StoreCall(op, pid, raised, io) ==
    [op |-> op, svc |-> "product_service", pid |-> pid, arg |-> <<>>,
     ret |-> None, raised |-> raised, io |-> io,
     pre |-> [store |-> CurrentStore, csv |-> csv]]

StoreStep(op, pid, st, file, raised, io) ==
    /\ ncalls' = ncalls + 1
    /\ objs' = st.objs
    /\ products' = st.products
    /\ products_by_id' = st.products_by_id
    /\ csv' = file
    /\ last' = StoreCall(op, pid, raised, io)
    /\ UNCHANGED <<cache, files, run, conc>>

\* load_from_csv(path), for a path holding `file`
load_from_csv(file) ==
    /\ ncalls < MaxCalls
    /\ LET loaded == LoadFromCsv(file)
       IN  IF loaded.ok
           THEN StoreStep("load_from_csv", EmptyId, loaded.store, csv, "", "ok")
           ELSE StoreStep("load_from_csv", EmptyId, CurrentStore, csv,
                          "Exception", "read_failed")

\* update_product(product), for a product object the service already holds
\* (ref) or a new one
update_product(ref, product) ==
    /\ ncalls < MaxCalls
    /\ ref <= Len(objs) + 1
    /\ LET heap == IF ref > Len(objs) THEN Append(objs, product) ELSE objs
           updated == UpdateProduct(Store(heap, products, products_by_id), ref)
       IN  IF updated.ok
           THEN StoreStep("update_product", heap[ref].product_id,
                          updated.store, csv, "", "")
           ELSE StoreStep("update_product", heap[ref].product_id,
                          CurrentStore, csv, "ValueError", "")

save_and_reload ==
    /\ ncalls < MaxCalls
    /\ \E r \in SaveAndReloadOutcomes(CurrentStore, csv) :
           StoreStep("save_and_reload", EmptyId, r.store, r.csv, r.raised, r.io)

InitStore ==
    /\ cache = [s \in Services |-> EmptyCache]
    /\ files = SeededFiles
    /\ last = NoCall
    /\ run = NoRun
    /\ conc = NoConc
    /\ csv \in StoreFiles
    /\ LoadFromCsv(csv).ok
    /\ objs = LoadFromCsv(csv).store.objs
    /\ products = LoadFromCsv(csv).store.products
    /\ products_by_id = LoadFromCsv(csv).store.products_by_id
    /\ ncalls = 0

NextStore ==
    \/ \E file \in StoreFiles : load_from_csv(file)
    \/ \E ref \in Refs, product \in NewProducts : update_product(ref, product)
    \/ save_and_reload

SpecStore == InitStore /\ [][NextStore]_vars

\* every id of the index maps to a record stored for that id in the list
IndexInList ==
    \A id \in ToolIds :
        products_by_id[id] # 0
            => /\ objs[products_by_id[id]].product_id = id
               /\ \E i \in 1 .. Len(products) : products[i] = products_by_id[id]

\* every product of the list is the one the index returns for its id
ListInIndex ==
    \A i \in 1 .. Len(products) :
        products_by_id[objs[products[i]].product_id] = products[i]

\* update_product on an id that is not in the index
UnknownIdRejected ==
    (last.op = "update_product" /\ last.pre.store.products_by_id[last.pid] = 0)
        => /\ last.raised = "ValueError"
           /\ products = last.pre.store.products
           /\ products_by_id = last.pre.store.products_by_id

\* C28 as stated: after any sequence of load_from_csv, update_product and
\* save_and_reload calls the product list and the by-id index describe the
\* same set of products: every product_id in the index maps to the very
\* record stored for that id in the list and every product in the list is
\* reachable through the index; update_product on an id not in the index
\* raises ValueError and changes neither.
C28_ListMatchesIndex == IndexInList /\ ListInIndex /\ UnknownIdRejected

\* no two positions of the list hold the same product_id
RECURSIVE UniqueIds(_)
UniqueIds(n) ==
    n <= 1 \/ (/\ \A i \in 1 .. (n - 1) :
                     objs[products[i]].product_id # objs[products[n]].product_id
               /\ UniqueIds(n - 1))

\* What does hold: the index is always found in the list and an unknown id
\* is rejected; the list is covered by the index while its ids are unique.
ListMatchesIndexIfUnique ==
    /\ IndexInList
    /\ UnknownIdRejected
    /\ UniqueIds(Len(products)) => ListInIndex

-----------------------------------------------------------------------------
(* PDFExtractor._extract_tables on one page (services/pdf_extractor.py).    *)
(* The page is the list of tables find_tables detects, or a page on which   *)
(* find_tables itself raises; the loop is followed one table at a time.     *)

MaxTables == 3

\* What tab.extract() does for a detected table: it returns rows of cells,
\* an empty list or None, or it raises.
Tab(table_data) == [table_data |-> table_data, raises |-> FALSE]
FailingTab == [table_data |-> None, raises |-> TRUE]
Tabs == {Tab(Some(<< <<"a">> >>)), Tab(Some(<<>>)), Tab(None), FailingTab}

Pages == [find_fails : BOOLEAN, tabs : SeqsUpTo(Tabs, MaxTables)]

\* `not table_data or len(table_data) == 0`
NoData(tab) == IsNone(tab.table_data) \/ Val(tab.table_data) = <<>>

\* The dictionary appended for a table (its markdown text and bounding box
\* are left out).
TableDict(table_index, table_data) ==
    [table_index |-> table_index, rows |-> Len(table_data),
     cols |-> Len(table_data[1]), data |-> table_data]

ExtractTables(pc, page, table_index, tables) ==
    [pc |-> pc, page |-> page, table_index |-> table_index, tables |-> tables]

PdfStep(next) ==
    /\ conc' = next
    /\ UNCHANGED <<cache, files, objs, products, products_by_id, csv, last,
                   ncalls, run>>

\* tabs = page.find_tables(): an exception goes to the except clause, which
\* logs and returns the empty list.
find_tables ==
    /\ conc.pc = "find_tables"
    /\ PdfStep(IF conc.page.find_fails
               THEN [conc EXCEPT !.pc = "returned"]
               ELSE [conc EXCEPT !.pc = "for"])

\* one round of the for loop in which a failed extract() is skipped and the
\* loop goes on with the next table
extract_table_SkipFailed ==
    /\ conc.pc = "for"
    /\ conc.table_index < Len(conc.page.tabs)
    /\ LET tab == conc.page.tabs[conc.table_index + 1]
       IN  PdfStep(IF tab.raises \/ NoData(tab)
                   THEN [conc EXCEPT !.table_index = @ + 1]
                   ELSE [conc EXCEPT !.table_index = @ + 1,
                                     !.tables = Append(@, TableDict(conc.table_index,
                                                                    Val(tab.table_data)))])

\* one round of the for loop: extract() raising leaves the loop for the
\* except clause and the tables collected so far are returned
extract_table ==
    /\ conc.pc = "for"
    /\ conc.table_index < Len(conc.page.tabs)
    /\ LET tab == conc.page.tabs[conc.table_index + 1]
       IN  PdfStep(IF tab.raises
                   THEN [conc EXCEPT !.pc = "returned"]
                   ELSE IF NoData(tab)
                   THEN [conc EXCEPT !.table_index = @ + 1]
                   ELSE [conc EXCEPT !.table_index = @ + 1,
                                     !.tables = Append(@, TableDict(conc.table_index,
                                                                    Val(tab.table_data)))])

\* the loop is exhausted: `return tables`
return_tables ==
    /\ conc.pc = "for"
    /\ conc.table_index = Len(conc.page.tabs)
    /\ PdfStep([conc EXCEPT !.pc = "returned"])

InitPdf ==
    /\ cache = [s \in Services |-> EmptyCache]
    /\ files = [s \in Services |-> EmptyDir]
    /\ last = NoCall
    /\ run = NoRun
    /\ conc \in {ExtractTables("find_tables", page, 0, <<>>) : page \in Pages}
    /\ NoProducts

NextPdf == find_tables \/ extract_table \/ return_tables

SpecPdf == InitPdf /\ [][NextPdf]_vars

\* the 0-based indexes of the returned tables, and of the detected tables
\* in a set of 1-based positions that hold data
Returned == {conc.tables[k].table_index : k \in 1 .. Len(conc.tables)}
WithData(positions) ==
    {i - 1 : i \in {j \in positions : ~conc.page.tabs[j].raises
                                         /\ ~NoData(conc.page.tabs[j])}}

\* the positions before the first table whose extraction fails
BeforeFailure ==
    {i \in 1 .. Len(conc.page.tabs) :
        \A j \in 1 .. i : ~conc.page.tabs[j].raises}

\* the returned list is in page order and each entry carries the data of
\* the table at its index
InPageOrder ==
    /\ \A k \in 1 .. Len(conc.tables) :
           conc.tables[k].data = Val(conc.page.tabs[conc.tables[k].table_index + 1].table_data)
    /\ \A k \in 1 .. (Len(conc.tables) - 1) :
           conc.tables[k].table_index < conc.tables[k + 1].table_index

\* C29 as stated: when extraction of one table on a PDF page fails the
\* failure is swallowed and only that table is omitted: every other table
\* detected on the page, before and after the failing one, is still
\* returned.
C29_OnlyFailingOmitted ==
    (conc.pc = "returned" /\ ~conc.page.find_fails)
        => Returned = WithData(1 .. Len(conc.page.tabs))

\* C29: when extraction of one table on a PDF page fails the failure is
\* swallowed (the call returns a list) and the loop ends there: the tables
\* with data detected before the failing one are returned, in page order;
\* the failing table and every table after it are omitted.  When
\* find_tables fails the empty list is returned.
C29_TablesBeforeFailure ==
    conc.pc = "returned"
        => /\ InPageOrder
           /\ Returned = IF conc.page.find_fails THEN {} ELSE WithData(BeforeFailure)

\* a page with a table before and a table after the failing one has been
\* extracted: only the first table is returned
C29_Witness ==
    /\ conc.pc = "returned"
    /\ ~conc.page.find_fails
    /\ conc.page.tabs = <<Tab(Some(<< <<"a">> >>)), FailingTab, Tab(Some(<< <<"a">> >>))>>
    /\ conc.tables = <<TableDict(0, << <<"a">> >>)>>

-----------------------------------------------------------------------------
(* The generate_competitor_data command                                     *)
(* (management/commands/generate_competitor_data.py): the loop of handle    *)
(* over the products, with the LLM requests and the sleeps it makes         *)
(* recorded in order.                                                       *)

MaxProducts == 3

\* --delay: the default and no delay
DefaultDelay == 2
Delays == {0, DefaultDelay}

\* --limit: None or a number of products
Limits == {None} \cup {Some(n) : n \in 0 .. MaxProducts}

\* generate_competitors for one product: the completion call returns and its
\* response parses, the completion call raises, or the response does not
\* parse.  The request has been made in each case.
Generations == {"ok", "completion_failed", "parse_failed"}

Request(product) == [kind |-> "request", product |-> product, seconds |-> 0]
Sleep(seconds) == [kind |-> "sleep", product |-> 0, seconds |-> seconds]

\* products[:limit]
Limited(n, limit) == IF IsNone(limit) \/ Val(limit) > n THEN n ELSE Val(limit)

Batch(pc, delay, n, product, trace, all_competitors) ==
    [pc |-> pc, delay |-> delay, products |-> n, product |-> product,
     trace |-> trace, all_competitors |-> all_competitors, stderr |-> <<>>]

BatchStep(next) ==
    /\ conc' = next
    /\ UNCHANGED <<cache, files, objs, products, products_by_id, csv, last,
                   ncalls, run>>

\* one round of the for loop in handle: on success the competitors are
\* collected and the command sleeps; an exception skips both, is written
\* to stderr, and the loop continues with the next product
generate_competitors(generation) ==
    /\ conc.pc = "for"
    /\ conc.product < conc.products
    /\ LET product == conc.product + 1
       IN  BatchStep(IF generation = "ok"
                     THEN [conc EXCEPT !.product = product,
                                       !.trace = @ \o <<Request(product), Sleep(conc.delay)>>,
                                       !.all_competitors = @ \cup {product}]
                     ELSE [conc EXCEPT !.product = product,
                                       !.trace = Append(@, Request(product)),
                                       !.stderr = Append(@, generation)])

\* after the loop: save_to_csv(all_competitors, output_path)
save_to_csv ==
    /\ conc.pc = "for"
    /\ conc.product = conc.products
    /\ BatchStep([conc EXCEPT !.pc = "saved"])

InitBatch ==
    /\ cache = [s \in Services |-> EmptyCache]
    /\ files = [s \in Services |-> EmptyDir]
    /\ last = NoCall
    /\ run = NoRun
    /\ conc \in {Batch("for", delay, Limited(n, limit), 0, <<>>, {}) :
                     delay \in Delays, n \in 0 .. MaxProducts, limit \in Limits}
    /\ NoProducts

NextBatch ==
    \/ \E generation \in Generations : generate_competitors(generation)
    \/ save_to_csv

SpecBatch == InitBatch /\ [][NextBatch]_vars

\* the positions of the trace that hold a request
Requests == {i \in 1 .. Len(conc.trace) : conc.trace[i].kind = "request"}

\* C30 as stated: between every two consecutive LLM requests a pause of the
\* configured fixed delay occurs: after the request for one product and
\* before the request for the next product the command always sleeps for
\* `delay` seconds, and a product whose generation fails is skipped without
\* stopping the batch.
C30_PauseBetweenRequests ==
    /\ \A i, j \in Requests :
           i < j => \E k \in (i + 1) .. (j - 1) : conc.trace[k] = Sleep(conc.delay)
    /\ conc.pc = "saved"
           => {conc.trace[i].product : i \in Requests} = 1 .. conc.products

\* What does hold: every product is requested once, in order, whatever
\* failed before; the command sleeps for `delay` right after a generation
\* that succeeded and not after one that failed.
PauseAfterSuccess ==
    /\ {conc.trace[i].product : i \in Requests} = 1 .. conc.product
    /\ \A i, j \in Requests : i < j => conc.trace[i].product < conc.trace[j].product
    /\ \A i \in Requests :
           IF conc.trace[i].product \in conc.all_competitors
           THEN i < Len(conc.trace) /\ conc.trace[i + 1] = Sleep(conc.delay)
           ELSE i = Len(conc.trace) \/ conc.trace[i + 1].kind = "request"

====
